---- MODULE Spec2Model ----
(***************************************************************************)
(* Blandford-Znajek jet visualiser: the physics model (physics.py), the    *)
(* standalone simulation (bzsim.py) and the time / parameter handlers of   *)
(* the advanced visualiser (visualizer.py, geometry.py).                   *)
(*                                                                         *)
(* Python floats are modelled as binary floating-point numbers of Bits     *)
(* significant bits, with the IEEE specials NaN and +/-Inf.                *)
(***************************************************************************)
EXTENDS Integers, Sequences, FiniteSets, TLC

VARIABLES jet, rel, geometry, vis, bz, edits, rt, runs, op, arg, ret

vars == <<jet, rel, geometry, vis, bz, edits, rt, runs, op, arg, ret>>

----------------------------------------------------------------------------
(* Floating point: a float is [m |-> mantissa, e |-> exponent] of value    *)
(* m * 2^e, with Bits significant bits, rounded to nearest (ties to even)  *)
(* as IEEE 754 does; NaN and the infinities are the records below.         *)

Bits == 15

WideBits == 27

SpecialExp == 9999

Abs(x) == IF x < 0 THEN -x ELSE x

Sign(x) == IF x < 0 THEN -1 ELSE IF x > 0 THEN 1 ELSE 0

Pow2Table ==
  <<1, 2, 4, 8, 16, 32, 64, 128, 256, 512, 1024, 2048, 4096, 8192, 16384,
    32768, 65536, 131072, 262144, 524288, 1048576, 2097152, 4194304,
    8388608, 16777216, 33554432, 67108864, 134217728, 268435456,
    536870912, 1073741824>>

Pow2(n) == Pow2Table[n + 1]

Zero == [m |-> 0, e |-> 0]

NaN == [m |-> 0, e |-> SpecialExp]

PInf == [m |-> 1, e |-> SpecialExp]

NInf == [m |-> -1, e |-> SpecialExp]

IsNaN(x) == x = NaN

IsInf(x) == x = PInf \/ x = NInf

IsFinite(x) == x.e # SpecialExp

\* Op applied to the value of x (of x and y): the argument is evaluated
\* once, as Python evaluates the operands of an operation once
Strict1(Op(_), x) == CHOOSE r \in {Op(v) : v \in {x}} : TRUE

Strict2(Op(_, _), x, y) == CHOOSE r \in {Op(p[1], p[2]) : p \in {<<x, y>>}} : TRUE

\* the least k >= k0 with a / 2^k < lim
RECURSIVE DownShift(_, _, _)
DownShift(a, lim, k0) ==
  IF a \div Pow2(k0) < lim THEN k0 ELSE DownShift(a, lim, k0 + 1)

\* the least k >= k0 with a * 2^k >= min, for a > 0
RECURSIVE UpShift(_, _, _)
UpShift(a, min, k0) ==
  IF a * Pow2(k0) >= min THEN k0 ELSE UpShift(a, min, k0 + 1)

\* a / 2^k rounded to nearest, ties to even
RoundShift(a, k) ==
  IF k = 0 THEN a
  ELSE LET q    == a \div Pow2(k)
           r    == a % Pow2(k)
           half == Pow2(k - 1)
       IN IF r > half \/ (r = half /\ q % 2 = 1) THEN q + 1 ELSE q

NormDown(m, k) ==
  LET q == RoundShift(Abs(m), k)
  IN IF q = Pow2(Bits)
     THEN [m |-> Sign(m) * Pow2(Bits - 1), e |-> k + 1]
     ELSE [m |-> Sign(m) * q, e |-> k]

NormUp(m, k) == [m |-> m * Pow2(k), e |-> -k]

\* the float nearest to the integer m
NormInt(m) ==
  IF m = 0 THEN Zero
  ELSE IF Abs(m) >= Pow2(Bits)
       THEN Strict2(NormDown, m, DownShift(Abs(m), Pow2(Bits), 1))
       ELSE Strict2(NormUp, m, UpShift(Abs(m), Pow2(Bits - 1), 0))

Scale(x, e) == IF x.m = 0 THEN Zero ELSE [m |-> x.m, e |-> x.e + e]

\* the float nearest to m * 2^e
Norm(m, e) == Strict2(Scale, NormInt(m), e)

\* one decimal digit of exponent: w is <<a, e2, e10>>, the value
\* a * 2^e2 * 10^e10 with Pow2(WideBits - 1) <= a < Pow2(WideBits)
DecStep(w) ==
  IF w[3] > 0
  THEN LET k == DownShift(w[1] * 10, Pow2(WideBits), 3)
       IN <<(w[1] * 10) \div Pow2(k), w[2] + k, w[3] - 1>>
  ELSE LET q == (w[1] * 16) \div 10
           k == DownShift(q, Pow2(WideBits), 0)
       IN <<q \div Pow2(k), w[2] - 4 + k, w[3] + 1>>

RECURSIVE Dec(_)
Dec(w) == IF w[3] = 0 THEN Norm(w[1], w[2]) ELSE Strict1(Dec, DecStep(w))

DecStart(m, e10) ==
  LET d == DownShift(Abs(m), Pow2(WideBits), 0)
      a == RoundShift(Abs(m), d)
      k == UpShift(a, Pow2(WideBits - 1), 0)
  IN <<a * Pow2(k), d - k, e10>>

FNeg(x) == IF IsNaN(x) THEN NaN ELSE [m |-> -x.m, e |-> x.e]

\* a float literal: F(2998, 7) is 2.998e10
F(m, e10) ==
  IF m = 0 THEN Zero
  ELSE IF m < 0 THEN FNeg(Strict1(Dec, DecStart(m, e10)))
  ELSE Strict1(Dec, DecStart(m, e10))

FromInt(n) == Norm(n, 0)

LtV(x, y) ==
  IF IsNaN(x) \/ IsNaN(y) THEN FALSE
  ELSE IF x = y THEN FALSE
  ELSE IF x = NInf \/ y = PInf THEN TRUE
  ELSE IF x = PInf \/ y = NInf THEN FALSE
  ELSE IF Sign(x.m) # Sign(y.m) THEN Sign(x.m) < Sign(y.m)
  ELSE IF x.m > 0
       THEN (x.e < y.e) \/ (x.e = y.e /\ x.m < y.m)
       ELSE (x.e > y.e) \/ (x.e = y.e /\ x.m < y.m)

\* x < y on floats; every comparison with NaN is false
FLt(x, y) == Strict2(LtV, x, y)

FGt(x, y) == FLt(y, x)

LeV(x, y) == LtV(x, y) \/ (~IsNaN(x) /\ ~IsNaN(y) /\ x = y)

FLe(x, y) == Strict2(LeV, x, y)

FGe(x, y) == FLe(y, x)

MaxV(a, b) == IF LtV(a, b) THEN b ELSE a

\* Python's builtin max(a, b): a unless b > a
PyMax(a, b) == Strict2(MaxV, a, b)

MinV(a, b) == IF LtV(b, a) THEN b ELSE a

\* Python's builtin min(a, b): a unless b < a
PyMin(a, b) == Strict2(MinV, a, b)

AddFinite(x, y) ==
  IF x.m = 0 THEN y
  ELSE IF y.m = 0 THEN x
  ELSE IF x.e >= y.e
       THEN IF x.e - y.e > Bits + 1 THEN x
            ELSE Norm(x.m * Pow2(x.e - y.e) + y.m, y.e)
       ELSE IF y.e - x.e > Bits + 1 THEN y
            ELSE Norm(y.m * Pow2(y.e - x.e) + x.m, x.e)

AddV(x, y) ==
  IF IsNaN(x) \/ IsNaN(y) THEN NaN
  ELSE IF IsInf(x) THEN (IF IsInf(y) /\ y # x THEN NaN ELSE x)
  ELSE IF IsInf(y) THEN y
  ELSE AddFinite(x, y)

FAdd(x, y) == Strict2(AddV, x, y)

SubV(x, y) == AddV(x, FNeg(y))

FSub(x, y) == Strict2(SubV, x, y)

MulV(x, y) ==
  IF IsNaN(x) \/ IsNaN(y) THEN NaN
  ELSE IF IsInf(x) \/ IsInf(y)
       THEN IF x.m = 0 \/ y.m = 0 THEN NaN
            ELSE IF Sign(x.m) * Sign(y.m) > 0 THEN PInf ELSE NInf
  ELSE Norm(x.m * y.m, x.e + y.e)

FMul(x, y) == Strict2(MulV, x, y)

DivFinite(x, y) ==
  LET n      == Abs(x.m) * Pow2(Bits)
      q      == n \div Abs(y.m)
      sticky == IF n % Abs(y.m) = 0 THEN 0 ELSE 1
  IN Norm(Sign(x.m) * Sign(y.m) * (2 * q + sticky), x.e - y.e - Bits - 1)

DivV(x, y) ==
  IF IsNaN(x) \/ IsNaN(y) THEN NaN
  ELSE IF IsInf(x)
       THEN IF IsInf(y) THEN NaN
            ELSE IF Sign(x.m) * (IF y.m < 0 THEN -1 ELSE 1) > 0 THEN PInf ELSE NInf
  ELSE IF IsInf(y) THEN Zero
  ELSE IF y.m = 0
       THEN IF x.m = 0 THEN NaN ELSE IF x.m > 0 THEN PInf ELSE NInf
  ELSE DivFinite(x, y)

\* numpy float64 division: x/0 is +/-inf, 0/0 is nan (a warning, no exception)
FDiv(x, y) == Strict2(DivV, x, y)

SquareV(x) == MulV(x, x)

FSquare(x) == Strict1(SquareV, x)

\* largest r in w[2]..w[3] with r*r <= w[1]
RECURSIVE IsqrtBetween(_)
IsqrtBetween(w) ==
  IF w[2] >= w[3] THEN w[2]
  ELSE LET mid == (w[2] + w[3] + 1) \div 2
       IN IF mid * mid <= w[1]
          THEN Strict1(IsqrtBetween, <<w[1], mid, w[3]>>)
          ELSE Strict1(IsqrtBetween, <<w[1], w[2], mid - 1>>)

\* the square root of n * 2^e (e even), from the integer root r of n
SqrtRound(w, r) ==
  Norm(2 * r + (IF r * r = w[1] THEN 0 ELSE 1), (w[2] \div 2) - 1)

SqrtV(x) ==
  IF IsNaN(x) THEN NaN
  ELSE IF x = PInf THEN PInf
  ELSE IF x.m < 0 THEN NaN
  ELSE IF x.m = 0 THEN Zero
  ELSE LET odd == (x.e % 2) # 0
           n   == IF odd THEN x.m * Pow2(Bits) ELSE x.m * Pow2(Bits + 1)
           e2  == IF odd THEN x.e - Bits ELSE x.e - Bits - 1
       IN Strict2(SqrtRound, <<n, e2>>, IsqrtBetween(<<n, 0, 46340>>))

\* np.sqrt: nan for a negative argument (a warning, no exception)
FSqrt(x) == Strict1(SqrtV, x)

One == FromInt(1)

Two == FromInt(2)

Three == FromInt(3)

Ten == FromInt(10)

Half == F(5, -1)

\* largest r in w[2]..w[3] with r*r*r <= w[1]
RECURSIVE IcbrtBetween(_)
IcbrtBetween(w) ==
  IF w[2] >= w[3] THEN w[2]
  ELSE LET mid == (w[2] + w[3] + 1) \div 2
       IN IF mid * mid * mid <= w[1]
          THEN Strict1(IcbrtBetween, <<w[1], mid, w[3]>>)
          ELSE Strict1(IcbrtBetween, <<w[1], w[2], mid - 1>>)

\* one Newton step y - (y^3 - x) / (3 y^2) on the cube root y of x
CbrtNewton(x, y) == DivV(AddV(MulV(Two, y), DivV(x, SquareV(y))), Three)

PowThirdV(x) ==
  IF IsNaN(x) THEN NaN
  ELSE IF x = PInf THEN PInf
  ELSE IF x.m < 0 THEN NaN
  ELSE IF x.m = 0 THEN Zero
  ELSE LET k == x.e % 3
       IN Strict2(CbrtNewton, x,
                  Norm(IcbrtBetween(<<x.m * Pow2(k + 12), 0, Pow2(10)>>),
                       (x.e - k - 12) \div 3))

\* Python x ** (1/3): the real cube root of x >= 0; a negative base gives a
\* complex number, which is no real value: NaN stands for it
PowThird(x) == Strict1(PowThirdV, x)

\* Lambert's continued fraction x/(1 + x2/(3 + x2/(5 + x2/(7 + x2/9)))), x2 = x*x
TanhFraction(x, x2) ==
  DivV(x, AddV(One, DivV(x2, AddV(Three, DivV(x2, AddV(FromInt(5),
       DivV(x2, AddV(FromInt(7), DivV(x2, FromInt(9))))))))))

TanhV(x) ==
  IF IsNaN(x) THEN NaN
  ELSE IF x = PInf THEN One
  ELSE IF x = NInf THEN FNeg(One)
  ELSE Strict2(TanhFraction, x, SquareV(x))

\* np.tanh
Tanh(x) == Strict1(TanhV, x)

\* np.sin(2*pi*n/d) for a whole number n of d-ths of a turn, by Bhaskara's
\* formula sin(p*pi) = 16p(1-p) / (5 - 4p(1-p)) on the half turn p in [0, 1]
SinTurn(n, d) ==
  LET k    == n % d
      neg  == 2 * k > d
      h    == IF neg THEN 2 * k - d ELSE 2 * k
      q    == h * (d - h)
      v    == FDiv(FromInt(16 * q), FromInt(5 * d * d - 4 * q))
  IN IF neg THEN FNeg(v) ELSE v

----------------------------------------------------------------------------
(* physics.py                                                              *)

\* lower clamp of the mass setter: 0.1 solar masses
MinMass == F(1, -1)

\* upper clamp of the spin setter
MaxSpin == F(999, -3)

\* lower clamp of the B setter: 1 Gauss
MinB == One

\* efficiency = 0.1 * a**2
EfficiencyFactor == F(1, -1)

\* power is normalised to 1e39 erg/s before the velocity relation
PowerNorm == F(1, 39)

\* jet_velocity = 0.8 + 0.15 * tanh(power_factor / 5.0)
VelocityFloor == F(8, -1)

VelocitySpan == F(15, -2)

\* speed of light [cm/s]
C == F(299792458, 2)

\* gravitational constant [cm^3/g/s^2]
G == F(667430, -13)

\* solar mass [g]
MSUN == F(198847, 28)

\* np.pi
PI == F(314159265, -8)

\* _update_derived_quantities runs statement by statement on the environment
\* s of the attributes and locals assigned so far.
\* M_cgs = self._mass * MSUN
MassInCgs(s) == [M_cgs |-> FMul(s.mass, MSUN)] @@ s

\* the radii with the horizon taken at the Schwarzschild radius for any spin
HorizonRadiiWithoutSpin(s) ==
  [schwarzschild_radius |->
     FDiv(FMul(FMul(Two, G), s.M_cgs), FSquare(C)),
   black_hole_radius |->
     FMul(FDiv(FMul(G, s.M_cgs), FSquare(C)), Two)] @@ s

\* self.schwarzschild_radius, self.black_hole_radius
HorizonRadii(s) ==
  [schwarzschild_radius |-> FDiv(FMul(FMul(Two, G), s.M_cgs), FSquare(C)),
   black_hole_radius |->
     FMul(FDiv(FMul(G, s.M_cgs), FSquare(C)),
          FAdd(One, FSqrt(FSub(One, FSquare(s.spin)))))] @@ s

\* self.omega_H, self.phi_BH and the local efficiency
HorizonFields(s) ==
  [omega_H |-> FDiv(FMul(s.spin, C), FMul(Two, s.black_hole_radius)),
   phi_BH |-> FMul(FMul(s.B, PI), FSquare(s.black_hole_radius)),
   efficiency |-> FMul(EfficiencyFactor, FSquare(s.spin))] @@ s

\* self.power = efficiency * (omega_H * phi_BH)**2 / (4 * pi * C)
JetPower(s) ==
  [power |-> FDiv(FMul(s.efficiency, FSquare(FMul(s.omega_H, s.phi_BH))),
                  FMul(FMul(FromInt(4), PI), C))] @@ s

\* power_factor, self.jet_velocity and self.energy_density
VelocityAndDensity(s) ==
  [jet_velocity |->
     FAdd(VelocityFloor,
          FMul(VelocitySpan,
               Tanh(FDiv(PyMin(FDiv(s.power, PowerNorm), Ten), FromInt(5))))),
   energy_density |->
     FDiv(s.power, FMul(PI, FSquare(FMul(s.black_hole_radius, Ten))))] @@ s

\* Z1 = 1 + (1 - a**2)**(1/3) * ((1 + a)**(1/3) + (1 - a)**(1/3))
IscoZ1(s) ==
  [Z1 |-> FAdd(One,
               FMul(PowThird(FSub(One, FSquare(s.spin))),
                    FAdd(PowThird(FAdd(One, s.spin)),
                         PowThird(FSub(One, s.spin)))))] @@ s

\* Z2 = sqrt(3 * a**2 + Z1**2)
IscoZ2(s) ==
  [Z2 |-> FSqrt(FAdd(FMul(Three, FSquare(s.spin)), FSquare(s.Z1)))] @@ s

\* r_ISCO = 3 + Z2 - sqrt((3 - Z1) * (3 + Z1 + 2*Z2)), in units of G M / c^2
BardeenRadius(s) ==
  FSub(FAdd(Three, s.Z2),
       FSqrt(FMul(FSub(Three, s.Z1),
                  FAdd(FAdd(Three, s.Z1), FMul(Two, s.Z2)))))

\* PhysicsCalculations.calculate_isco_radius for jet.spin = a: the
\* Bardeen-Press-Teukolsky expression, with no branch on a
CalculateIscoRadius(a) ==
  Strict1(BardeenRadius, Strict1(IscoZ2, Strict1(IscoZ1, [spin |-> a])))

\* self.isco_radius with the Schwarzschild case taken as 3 G M / c^2
IscoRadiusHalved(s) ==
  [isco_radius |->
     IF FGt(s.spin, Zero)
     THEN FDiv(FMul(FMul(BardeenRadius(s), G), s.M_cgs), FSquare(C))
     ELSE FDiv(FMul(FMul(Three, G), s.M_cgs), FSquare(C))] @@ s

\* self.isco_radius: the prograde ISCO if a > 0, else 6 G M / c^2
IscoRadius(s) ==
  [isco_radius |->
     IF FGt(s.spin, Zero)
     THEN FDiv(FMul(FMul(FSub(FAdd(Three, s.Z2),
                              FSqrt(FMul(FSub(Three, s.Z1),
                                         FAdd(FAdd(Three, s.Z1),
                                              FMul(Two, s.Z2))))),
                         G),
                    s.M_cgs),
               FSquare(C))
     ELSE FDiv(FMul(FMul(FromInt(6), G), s.M_cgs), FSquare(C))] @@ s

\* the attributes _update_derived_quantities leaves on the object
DerivedAttributes(s) ==
  [schwarzschild_radius |-> s.schwarzschild_radius,
   black_hole_radius    |-> s.black_hole_radius,
   omega_H              |-> s.omega_H,
   phi_BH               |-> s.phi_BH,
   power                |-> s.power,
   jet_velocity         |-> s.jet_velocity,
   energy_density       |-> s.energy_density,
   isco_radius          |-> s.isco_radius]

\* BlandfordZnajekJet._update_derived_quantities, as a function of the stored inputs
DerivedQuantities(mass, spin, B) ==
  Strict1(DerivedAttributes,
    Strict1(IscoRadius, Strict1(IscoZ2, Strict1(IscoZ1,
      Strict1(VelocityAndDensity, Strict1(JetPower, Strict1(HorizonFields,
        Strict1(HorizonRadii, Strict1(MassInCgs,
          [mass |-> mass, spin |-> spin, B |-> B])))))))))

\* BlandfordZnajekJet._update_derived_quantities on the object j
Rederive(j) ==
  [mass |-> j.mass, spin |-> j.spin, B |-> j.B]
    @@ DerivedQuantities(j.mass, j.spin, j.B)

UpdateDerivedQuantities(j) == Strict1(Rederive, j)

\* BlandfordZnajekJet.__init__(mass, spin, B): the arguments are stored as given
JetInit(mass, spin, B) ==
  UpdateDerivedQuantities([mass |-> mass, spin |-> spin, B |-> B])

\* defaults of BlandfordZnajekJet.__init__: mass=10.0, spin=0.9, B=1e4
DefaultMass == Ten

DefaultSpin == F(9, -1)

DefaultB == F(1, 4)

DefaultJet == JetInit(DefaultMass, DefaultSpin, DefaultB)

\* a mass setter that rebuilds the object with the default spin
MassSetterResetsSpin(j, value) ==
  JetInit(PyMax(MinMass, value), DefaultSpin, j.B)

\* the mass setter without its recomputation of the derived quantities
MassSetterNoUpdate(j, value) == [j EXCEPT !.mass = PyMax(MinMass, value)]

\* the spin setter without its upper clamp
SpinSetterNoCeiling(j, value) ==
  UpdateDerivedQuantities([j EXCEPT !.spin = PyMax(Zero, value)])

\* mass.setter: self._mass = max(0.1, value)
MassSetter(j, value) ==
  UpdateDerivedQuantities([j EXCEPT !.mass = PyMax(MinMass, value)])

\* the spin setter without its recomputation of the derived quantities
SpinSetterNoUpdate(j, value) ==
  [j EXCEPT !.spin = PyMax(Zero, PyMin(MaxSpin, value))]

\* spin.setter: self._spin = max(0.0, min(0.999, value))
SpinSetter(j, value) ==
  UpdateDerivedQuantities([j EXCEPT !.spin = PyMax(Zero, PyMin(MaxSpin, value))])

\* B.setter: self._B = max(1.0, value)
BSetter(j, value) ==
  UpdateDerivedQuantities([j EXCEPT !.B = PyMax(MinB, value)])

\* BlandfordZnajekJet.L_BZ
L_BZ(j) == j.power

\* BlandfordZnajekJet.get_physical_scales
GetPhysicalScales(j) ==
  [black_hole_radius    |-> j.black_hole_radius,
   schwarzschild_radius |-> j.schwarzschild_radius,
   isco_radius          |-> j.isco_radius,
   jet_velocity         |-> j.jet_velocity,
   power                |-> j.power,
   energy_density       |-> j.energy_density]

\* amplitudes of the 3-second, 20-second and random terms of fluctuate
FastAmplitude == F(1, -1)

SlowAmplitude == F(5, -2)

RandomAmplitude == F(3, -2)

\* the multiplier of BlandfordZnajekJet.fluctuate at t = t10/10 seconds with
\* np.random.random() = rnd
FluctFactor(t10, rnd) ==
  LET fast_fluct   == FMul(FastAmplitude, SinTurn(t10, 30))
      slow_fluct   == FMul(SlowAmplitude, SinTurn(t10, 200))
      random_fluct == FMul(RandomAmplitude, FSub(rnd, Half))
  IN FAdd(FAdd(FAdd(One, fast_fluct), slow_fluct), random_fluct)

\* BlandfordZnajekJet.fluctuate(t): returns power * fluct_factor, stores nothing
Fluctuate(j, t10, rnd) == FMul(j.power, FluctFactor(t10, rnd))

\* physical limits of update_jet_velocity
MinVelocity == F(1, -1)

MaxVelocity == F(999, -3)

\* the Lorentz factor 1 / np.sqrt(1 - v**2)
Gamma(v) == FDiv(One, FSqrt(FSub(One, FSquare(v))))

WithGamma(v) == [jet_velocity |-> v, gamma |-> Gamma(v)]

\* RelativisticEffects.__init__(jet_velocity): the argument is stored as given
RelInit(jet_velocity) == Strict1(WithGamma, jet_velocity)

\* RelativisticEffects.update_jet_velocity:
\* self.jet_velocity = max(0.1, min(0.999, new_velocity))
UpdateJetVelocity(r, new_velocity) ==
  Strict1(WithGamma, PyMax(MinVelocity, PyMin(MaxVelocity, new_velocity)))

\* np.cos of an angle of n d-ths of a turn (d a multiple of 4)
CosTurn(n, d) == SinTurn(n + d \div 4, d)

\* clamp range of the Doppler factor
MinDoppler == F(1, -2)

MaxDoppler == FromInt(50)

\* calculate_doppler_factor without the jet direction: every jet is treated
\* as the approaching one
CalculateDopplerFactorOneSided(r, n, d, jet_direction) ==
  PyMax(MinDoppler,
        PyMin(FDiv(One, FMul(r.gamma,
                             FSub(One, FMul(r.jet_velocity, CosTurn(n, d))))),
              MaxDoppler))

\* calculate_doppler_factor with the sign of the direction reversed: the
\* approaching jet is treated as the receding one
CalculateDopplerFactorReversed(r, n, d, jet_direction) ==
  PyMax(MinDoppler,
        PyMin(FDiv(One,
                   FMul(r.gamma,
                        FAdd(One, FMul(r.jet_velocity,
                                       FMul(CosTurn(n, d), FromInt(jet_direction)))))),
              MaxDoppler))

\* RelativisticEffects.calculate_doppler_factor for a viewing angle of n/d turn
CalculateDopplerFactor(r, n, d, jet_direction) ==
  PyMax(MinDoppler,
        PyMin(FDiv(One,
                   FMul(r.gamma,
                        FSub(One, FMul(r.jet_velocity,
                                       FMul(CosTurn(n, d), FromInt(jet_direction)))))),
              MaxDoppler))

\* x ** k for a whole exponent k >= 0
RECURSIVE FPowNat(_, _)
FPowNat(x, k) == IF k = 0 THEN One ELSE FMul(FPowNat(x, k - 1), x)

\* RelativisticEffects.apply_relativistic_beaming for a whole spectral index:
\* base_intensity * doppler_factor ** (3 + spectral_index)
ApplyRelativisticBeaming(base_intensity, doppler_factor, spectral_index) ==
  FMul(base_intensity, FPowNat(doppler_factor, 3 + spectral_index))

HalfPi == FDiv(PI, Two)

\* what a call returns when Python float division by zero raises
ZeroDivisionError == "ZeroDivisionError"

\* gravitational_lensing_deflection without the cap at 90 degrees
GravitationalLensingDeflectionUncapped(impact_parameter, schwarzschild_radius) ==
  IF FGt(impact_parameter, schwarzschild_radius)
  THEN IF impact_parameter = Zero
       THEN ZeroDivisionError
       ELSE FDiv(FMul(Two, schwarzschild_radius), impact_parameter)
  ELSE Zero

\* RelativisticEffects.gravitational_lensing_deflection
GravitationalLensingDeflection(impact_parameter, schwarzschild_radius) ==
  IF FGt(impact_parameter, schwarzschild_radius)
  THEN IF impact_parameter = Zero
       THEN ZeroDivisionError
       ELSE PyMin(FDiv(FMul(Two, schwarzschild_radius), impact_parameter),
                  HalfPi)
  ELSE Zero

\* floor of the time dilation factor
MinDilation == F(1, -1)

\* calculate_time_dilation without the floor outside the horizon
CalculateTimeDilationNoFloor(radius, schwarzschild_radius) ==
  IF FGt(radius, schwarzschild_radius)
  THEN IF radius = Zero
       THEN ZeroDivisionError
       ELSE FSqrt(FSub(One, FDiv(schwarzschild_radius, radius)))
  ELSE MinDilation

\* RelativisticEffects.calculate_time_dilation
CalculateTimeDilation(radius, schwarzschild_radius) ==
  IF FGt(radius, schwarzschild_radius)
  THEN IF radius = Zero
       THEN ZeroDivisionError
       ELSE PyMax(FSqrt(FSub(One, FDiv(schwarzschild_radius, radius))),
                  MinDilation)
  ELSE MinDilation

----------------------------------------------------------------------------
(* geometry.py                                                             *)

\* cm to km
CmPerKm == F(1, 5)

\* the attributes copied from the physics parameters, radii in km
GeometryScales(physics_params) ==
  [bh_radius            |-> FDiv(physics_params.black_hole_radius, CmPerKm),
   schwarzschild_radius |-> FDiv(physics_params.schwarzschild_radius, CmPerKm),
   isco_radius          |-> FDiv(physics_params.isco_radius, CmPerKm),
   jet_velocity         |-> physics_params.jet_velocity,
   power                |-> physics_params.power,
   energy_density       |-> physics_params.energy_density]

\* the scale dependent quantities
GeometryDependent(g) ==
  [disk_radius       |-> PyMax(FMul(Ten, g.bh_radius), FMul(Three, g.isco_radius)),
   jet_length        |-> FMul(FromInt(20), g.bh_radius),
   jet_radius_base   |-> FMul(F(1, -1), g.bh_radius),
   jet_radius_collar |-> FMul(Half, g.bh_radius)] @@ g

\* GeometryGenerator.update_physics_params, which __init__ calls too
UpdatePhysicsParams(physics_params) ==
  Strict1(GeometryDependent, Strict1(GeometryScales, physics_params))

----------------------------------------------------------------------------
(* visualizer.py: the simulation time t is counted in units of 0.025 s,    *)
(* the advance of one tick at speed 0.25x, so that every advance is exact. *)

\* 0.1 s, the advance of a tick at speed 1x, in time units
TenthSecond == 4

\* the 0.2 s of step_backward, in time units
BackStep == 8

\* speed_map.get(speed_text, 1.0), in time units per tick
SpeedMap(speed_text) ==
  CASE speed_text = "0.25x" -> 1
    [] speed_text = "0.5x"  -> 2
    [] speed_text = "1x"    -> 4
    [] speed_text = "2x"    -> 8
    [] speed_text = "5x"    -> 20
    [] OTHER                -> 4

\* Python int(): truncation towards zero, of a / b for b > 0
TruncDiv(a, b) == IF a >= 0 THEN a \div b ELSE -((-a) \div b)

\* length above which time_data is cut, and the length it is cut to
MaxTimeData == 1000

KeepTimeData == 500

\* the recording with the cut keeping the oldest 500 rows instead of the
\* most recent
RecordTimeDataKeepOldest(time_data, t) ==
  IF TruncDiv(t, TenthSecond) % 5 = 0
  THEN IF Len(time_data) + 1 > MaxTimeData
       THEN SubSeq(Append(time_data, t), 1, KeepTimeData)
       ELSE Append(time_data, t)
  ELSE time_data

\* time_data after a frame at time t: a row is recorded when
\* int(self.t * 10) % 5 == 0, and only the last 500 rows are kept once there
\* are more than 1000; a row is modelled by its time stamp
RecordTimeData(time_data, t) ==
  IF TruncDiv(t, TenthSecond) % 5 = 0
  THEN IF Len(time_data) + 1 > MaxTimeData
       THEN SubSeq(Append(time_data, t), Len(time_data) + 2 - KeepTimeData,
                   Len(time_data) + 1)
       ELSE Append(time_data, t)
  ELSE time_data

\* JetVisualizer.update_simulation
UpdateSimulation(v) ==
  IF ~v.is_playing THEN v
  ELSE [v EXCEPT !.t = @ + v.time_speed,
                 !.time_data = RecordTimeData(@, v.t + v.time_speed)]

\* toggle_playback without stopping or starting the timer
TogglePlaybackTimerUntouched(v) == [v EXCEPT !.is_playing = ~@]

\* JetVisualizer.toggle_playback: the timer runs exactly while playing
TogglePlayback(v) ==
  [v EXCEPT !.is_playing = ~@, !.timer_active = ~v.is_playing]

\* JetVisualizer.step_forward
StepForward(v) == UpdateSimulation(v)

\* JetVisualizer.step_backward: self.t -= 0.2, then update_simulation()
StepBackward(v) == UpdateSimulation([v EXCEPT !.t = @ - BackStep])

\* JetVisualizer.on_speed_changed
OnSpeedChanged(v, speed_text) == [v EXCEPT !.time_speed = SpeedMap(speed_text)]

\* the jet after the assignments of update_physics_parameters; an argument
\* is <<>> for None and <<x>> for the value x
AssignGivenMass(j, mass) == IF mass = <<>> THEN j ELSE MassSetter(j, mass[1])

AssignGivenSpin(j, spin) == IF spin = <<>> THEN j ELSE SpinSetter(j, spin[1])

AssignGivenB(j, B) == IF B = <<>> THEN j ELSE BSetter(j, B[1])

AssignGiven(j, mass, spin, B) ==
  Strict2(AssignGivenB,
          Strict2(AssignGivenSpin, Strict2(AssignGivenMass, j, mass), spin), B)

\* the two observers brought up to date with the jet of w
RefreshObservers(w) ==
  [jet      |-> w.jet,
   rel      |-> UpdateJetVelocity(w.rel, w.jet.jet_velocity),
   geometry |-> UpdatePhysicsParams(GetPhysicalScales(w.jet))]

\* update_physics_parameters leaving the geometry generator as it was
RefreshRelativistic(w) == [RefreshObservers(w) EXCEPT !.geometry = w.geometry]

UpdatePhysicsParametersNoGeometry(w, mass, spin, B) ==
  Strict1(RefreshRelativistic,
          [w EXCEPT !.jet = AssignGiven(w.jet, mass, spin, B)])

\* JetVisualizer.update_physics_parameters on w = [jet, rel, geometry]
UpdatePhysicsParameters(w, mass, spin, B) ==
  Strict1(RefreshObservers, [w EXCEPT !.jet = AssignGiven(w.jet, mass, spin, B)])

\* 10 ** (k / 10.0) for k = 0 .. 9
TenthPowers ==
  <<One, F(12589, -4), F(15849, -4), F(19953, -4), F(25119, -4),
    F(31623, -4), F(39811, -4), F(50119, -4), F(63096, -4), F(79433, -4)>>

\* 10 ** (value / 10.0) of on_B_changed
TenToTheTenths(value) == FMul(TenthPowers[(value % 10) + 1], F(1, value \div 10))

\* the two observers as JetVisualizer.__init__ makes them for the jet j
Observed(j) ==
  [jet      |-> j,
   rel      |-> RelInit(j.jet_velocity),
   geometry |-> UpdatePhysicsParams(GetPhysicalScales(j))]

\* JetVisualizer.__init__(mass, spin, B): jet, relativistic, geometry
VisualizerInit(mass, spin, B) == Strict1(Observed, JetInit(mass, spin, B))

\* the time controls set by JetVisualizer.__init__
TimeControlsInit ==
  [t |-> 0, is_playing |-> TRUE, timer_active |-> TRUE,
   time_speed |-> SpeedMap("1x"), time_data |-> <<>>]

----------------------------------------------------------------------------
(* visualizer/main_visualizer.py and visualizer/ui_controls.py: the        *)
(* modular window                                                          *)

\* 10 ** value for a whole value >= 0 (the exponent is split in two halves)
TenToThe(value) == FMul(F(1, value \div 2), F(1, value - value \div 2))

\* int(np.log10(current_val) * 10) for a current_val from 1 up to 1e8
LogSliderPosition(current_val) ==
  CHOOSE v \in 0..80 :
    /\ FLe(TenToTheTenths(v), current_val)
    /\ FLt(current_val, TenToTheTenths(v + 1))

\* the sliders as UIControls.create_physics_controls sets them for the jet j
SlidersInit(j) ==
  [mass_slider |-> 10, spin_slider |-> 900, B_slider |-> LogSliderPosition(j.B)]

\* update_physics_and_geometry: the geometry is refreshed from the jet
WithGeometry(j) ==
  [jet |-> j, geometry |-> UpdatePhysicsParams(GetPhysicalScales(j))]

\* main_visualizer on_mass_changed(value): self.jet.mass = value
ModularOnMassChanged(j, value) ==
  Strict1(WithGeometry, MassSetter(j, FromInt(value)))

\* main_visualizer on_spin_changed(value): self.jet.spin = value / 1000.0
ModularOnSpinChanged(j, value) ==
  Strict1(WithGeometry, SpinSetter(j, FDiv(FromInt(value), FromInt(1000))))

\* main_visualizer on_B_changed(value): self.jet.B = 10**value
ModularOnBChanged(j, value) ==
  Strict1(WithGeometry, BSetter(j, TenToThe(value)))

\* RenderingEngine.update_doppler_effects for jet.jet_velocity = beta and a
\* viewing angle of n/d turn: its gamma is beta / (1 - beta**2)**0.5
UpdateDopplerEffects(beta, n, d) ==
  [approaching |->
     FDiv(One, FMul(FDiv(beta, FSqrt(FSub(One, FSquare(beta)))),
                    FSub(One, FMul(beta, CosTurn(n, d))))),
   receding |->
     FDiv(One, FMul(FDiv(beta, FSqrt(FSub(One, FSquare(beta)))),
                    FAdd(One, FMul(beta, CosTurn(n, d)))))]

\* PhysicsCalculations.calculate_doppler_factor for jet.jet_velocity = beta
\* and a viewing angle of n/d turn: its gamma is 1 / (1 - beta**2)**0.5
DisplayedDopplerFactor(beta, n, d) ==
  FDiv(One, FMul(FDiv(One, FSqrt(FSub(One, FSquare(beta)))),
                 FSub(One, FMul(beta, CosTurn(n, d)))))

\* update_statistics_display of visualizer.py: the Schwarzschild radius shown,
\* 2 * self.jet.mass * 2.95e5, in cm
StatisticsSchwarzschildRadius(j) == FMul(FMul(Two, j.mass), F(295, 3))

\* PhysicsCalculations.calculate_schwarzschild_radius: 2 G M / c**2 with SI
\* constants, in km
CalculateSchwarzschildRadius(j) ==
  FDiv(FDiv(FMul(FMul(Two, F(66743, -15)), FMul(j.mass, F(198847, 25))),
            FSquare(F(299792458, 0))),
       FromInt(1000))

----------------------------------------------------------------------------
(* bzsim.py                                                                *)

\* efficiency factor
KAPPA == F(5, -2)

\* the arbitrary cross-section radius of update_jet_power, 1e15 cm
CrossSectionRadius == F(1, 15)

\* self.power = (KAPPA / (4 * np.pi * C)) * (a ** 2) * (B ** 2) * (M_cgs ** 2)
BzPower(b) ==
  [power |->
     FMul(FMul(FMul(FDiv(KAPPA, FMul(FMul(FromInt(4), PI), C)), FSquare(b.spin)),
               FSquare(b.B)),
          FSquare(FMul(b.mass, MSUN)))] @@ b

\* self.energy_density = self.power / (np.pi * (1e15)**2)
BzEnergyDensity(b) ==
  [energy_density |-> FDiv(b.power, FMul(PI, FSquare(CrossSectionRadius)))] @@ b

\* bzsim.BlandfordZnajekJet.update_jet_power
UpdateJetPower(b) == Strict1(BzEnergyDensity, Strict1(BzPower, b))

\* bzsim.BlandfordZnajekJet.__init__
BzJetInit(mass, spin, B) == UpdateJetPower([mass |-> mass, spin |-> spin, B |-> B])

\* amplitudes of the periodic and the random term of bzsim's fluctuate
BzSinAmplitude == F(2, -1)

BzRandnAmplitude == F(1, -1)

\* fluct = 1 + 0.2 * np.sin(2 * np.pi * t / 5) + 0.1 * np.random.randn()
\* at t = t10/10 seconds
BzFluct(t10, randn) ==
  FAdd(FAdd(One, FMul(BzSinAmplitude, SinTurn(t10, 50))),
       FMul(BzRandnAmplitude, randn))

ScalePower(b, fluct) ==
  [b EXCEPT !.power = FMul(@, fluct), !.energy_density = FMul(@, fluct)]

\* bzsim.BlandfordZnajekJet.fluctuate(t): self.power *= fluct;
\* self.energy_density *= fluct
BzFluctuate(b, t10, randn) == Strict2(ScalePower, b, BzFluct(t10, randn))

\* bzsim.JetVisualizer.update_simulation: self.t += 0.1; self.jet.fluctuate(self.t)
BzUpdateSimulation(sim, randn) ==
  [jet |-> BzFluctuate(sim.jet, sim.t + 1, randn), t |-> sim.t + 1]

Digits == <<"0", "1", "2", "3", "4", "5", "6", "7", "8", "9">>

IsDigit(ch) == \E i \in 1..10 : Digits[i] = ch

DigitValue(ch) == (CHOOSE i \in 1..10 : Digits[i] = ch) - 1

\* one character of the text of a float: [spaces] [sign] digits [. digits]
\* [e [sign] digits] [spaces], a dot needing a digit on one side
ParseChar(st, ch) ==
  LET to(ph) == [st EXCEPT !.phase = ph]
      bad    == to("error")
  IN CASE st.phase = "start" ->
            IF ch = " " THEN st
            ELSE IF ch = "-" THEN [st EXCEPT !.phase = "sign", !.neg = TRUE]
            ELSE IF ch = "+" THEN to("sign")
            ELSE IF ch = "." THEN to("dot")
            ELSE IF IsDigit(ch) THEN [st EXCEPT !.phase = "int", !.m = DigitValue(ch)]
            ELSE bad
       [] st.phase = "sign" ->
            IF ch = "." THEN to("dot")
            ELSE IF IsDigit(ch) THEN [st EXCEPT !.phase = "int", !.m = DigitValue(ch)]
            ELSE bad
       [] st.phase = "int" ->
            IF IsDigit(ch) THEN [st EXCEPT !.m = @ * 10 + DigitValue(ch)]
            ELSE IF ch = "." THEN to("frac")
            ELSE IF ch \in {"e", "E"} THEN to("e")
            ELSE IF ch = " " THEN to("trail")
            ELSE bad
       [] st.phase \in {"dot", "frac"} ->
            IF IsDigit(ch)
            THEN [st EXCEPT !.phase = "frac", !.m = @ * 10 + DigitValue(ch),
                            !.scale = @ + 1]
            ELSE IF st.phase = "frac" /\ ch \in {"e", "E"} THEN to("e")
            ELSE IF st.phase = "frac" /\ ch = " " THEN to("trail")
            ELSE bad
       [] st.phase = "e" ->
            IF ch = "-" THEN [st EXCEPT !.phase = "esign", !.eneg = TRUE]
            ELSE IF ch = "+" THEN to("esign")
            ELSE IF IsDigit(ch) THEN [st EXCEPT !.phase = "exp", !.exp = DigitValue(ch)]
            ELSE bad
       [] st.phase = "esign" ->
            IF IsDigit(ch) THEN [st EXCEPT !.phase = "exp", !.exp = DigitValue(ch)]
            ELSE bad
       [] st.phase = "exp" ->
            IF IsDigit(ch) THEN [st EXCEPT !.exp = @ * 10 + DigitValue(ch)]
            ELSE IF ch = " " THEN to("trail")
            ELSE bad
       [] st.phase = "trail" -> IF ch = " " THEN st ELSE bad
       [] OTHER -> bad

\* w is <<state, rest of the text>>
RECURSIVE ParseScan(_)
ParseScan(w) ==
  IF w[2] = <<>> THEN w[1]
  ELSE Strict1(ParseScan, <<ParseChar(w[1], Head(w[2])), Tail(w[2])>>)

ParseResult(st) ==
  IF st.phase \in {"int", "frac", "exp", "trail"}
  THEN [ok |-> TRUE,
        value |-> F(IF st.neg THEN -st.m ELSE st.m,
                    (IF st.eneg THEN -st.exp ELSE st.exp) - st.scale)]
  ELSE [ok |-> FALSE, value |-> NaN]

\* Python float(text) on the characters txt: ok is FALSE for a ValueError
ParseFloat(txt) ==
  IF txt = <<"n", "a", "n">> THEN [ok |-> TRUE, value |-> NaN]
  ELSE IF txt = <<"i", "n", "f">> THEN [ok |-> TRUE, value |-> PInf]
  ELSE Strict1(ParseResult, ParseScan(<<[phase |-> "start", neg |-> FALSE, m |-> 0, scale |-> 0,
                                     eneg |-> FALSE, exp |-> 0], txt>>))

\* accepted ranges of update_parameters
MinMassText == One

MaxMassText == FromInt(100)

MinSpinText == F(1, -2)

MaxSpinText == F(99, -2)

MinBText == F(1, 12)

MaxBText == F(1, 16)

InRange(lo, x, hi) == FLe(lo, x) /\ FLe(x, hi)

\* update_parameters assigning each value as soon as it alone is validated
ApplyParsedPartially(sim, p) ==
  IF ~p[1].ok \/ ~InRange(MinMassText, p[1].value, MaxMassText) THEN sim
  ELSE IF ~p[2].ok \/ ~InRange(MinSpinText, p[2].value, MaxSpinText)
       THEN [sim EXCEPT !.jet.mass = p[1].value]
  ELSE IF ~p[3].ok \/ ~InRange(MinBText, p[3].value, MaxBText)
       THEN [sim EXCEPT !.jet.mass = p[1].value, !.jet.spin = p[2].value]
  ELSE [jet |-> UpdateJetPower([sim.jet EXCEPT !.mass = p[1].value,
                                              !.spin = p[2].value,
                                              !.B = p[3].value]),
        t |-> 0]

\* the body of update_parameters on the parsed fields p: any ValueError
\* leaves through the except clause before the first assignment; otherwise
\* the three values are assigned, update_jet_power() and init_scene() run,
\* and init_scene sets self.t = 0
ApplyParsed(sim, p) ==
  IF ~p[1].ok \/ ~p[2].ok \/ ~p[3].ok THEN sim
  ELSE IF ~InRange(MinMassText, p[1].value, MaxMassText) THEN sim
  ELSE IF ~InRange(MinSpinText, p[2].value, MaxSpinText) THEN sim
  ELSE IF ~InRange(MinBText, p[3].value, MaxBText) THEN sim
  ELSE [jet |-> UpdateJetPower([sim.jet EXCEPT !.mass = p[1].value,
                                              !.spin = p[2].value,
                                              !.B = p[3].value]),
        t |-> 0]

\* bzsim.JetVisualizer.update_parameters with the texts e of the three fields
UpdateParameters(sim, e) ==
  Strict2(ApplyParsed, sim,
          <<ParseFloat(e.mass_edit), ParseFloat(e.spin_edit), ParseFloat(e.B_edit)>>)

----------------------------------------------------------------------------
(* np.random: the generator shared by the whole process. Its state is the  *)
(* seed it was given and the count of values drawn since; the seed fixes   *)
(* the stream, and every draw anywhere in the program moves it on.         *)

\* the value number k (from 0) of the stream of a seed, uniform on [0, 1)
RandomStream(seed, k) == F((37 * k + 61 * seed + 11) % 100, -2)

\* np.random.seed(seed)
NpRandomSeed(seed) == [seed |-> seed, drawn |-> 0]

\* the generator after n more values are drawn
NpRandomDrawn(g, n) == [g EXCEPT !.drawn = @ + n]

\* n_stars and n_galaxies of add_background_elements
NStars == 800

NGalaxies == 150

\* values add_background_elements draws: randn(n_stars, 3), rand(n_stars, 3),
\* choice, uniform and uniform of n_stars each, randn(n_galaxies, 3)
BackgroundDraws == 9 * NStars + 3 * NGalaxies

\* a run of the program: its jet, its generator, and the fluctuate(t) calls
\* made so far with their results
RunInit(seed) ==
  [jet |-> DefaultJet, rng |-> NpRandomSeed(seed), scenes |-> 0,
   calls |-> <<>>, results |-> <<>>]

\* jet.fluctuate(t) in a run: np.random.random() is the next value of the
\* process-wide stream
RunFluctuate(r, t10) ==
  [r EXCEPT !.rng = NpRandomDrawn(@, 1),
            !.calls = Append(@, t10),
            !.results = Append(@, Fluctuate(r.jet, t10,
                                            RandomStream(r.rng.seed, r.rng.drawn)))]

\* add_background_elements in a run: the star and galaxy arrays are drawn
\* from the process-wide stream
AddBackgroundElements(r) ==
  [r EXCEPT !.rng = NpRandomDrawn(@, BackgroundDraws), !.scenes = @ + 1]

\* jet.mass = value in a run
RunSetMass(r, value) == [r EXCEPT !.jet = MassSetter(@, value)]

----------------------------------------------------------------------------
(* Inputs                                                                  *)

\* argument values tried for mass: -1, 0, 0.05, 10 solar masses
MassInputs == {F(-1, 0), Zero, F(5, -2), Ten}

\* argument values tried for spin: -0.5, 0, 0.9, 0.9995, 1, 1.5
SpinInputs == {F(-5, -1), Zero, F(9, -1), F(9995, -4), One, F(15, -1)}

\* argument values tried for B: -1, 0.5, 1e4, 1e9 Gauss
BInputs == {F(-1, 0), Half, F(1, 4), F(1, 9)}

\* draws of np.random.random(), uniform on [0, 1)
RandomDraws == {Zero, F(9999, -4)}

\* largest simulation time passed to fluctuate, in tenths of a second
MaxT10 == 2

NotUsed == "not used"

----------------------------------------------------------------------------
(* Specification of the physics object alone: construction with any        *)
(* arguments, then any sequence of setter and query calls.                 *)

JetSpecInit ==
  /\ \E m \in MassInputs, a \in SpinInputs, b \in BInputs :
       /\ jet = JetInit(m, a, b)
       /\ arg = [mass |-> m, spin |-> a, B |-> b]
  /\ op = "__init__"
  /\ ret = NotUsed
  /\ rel = NotUsed /\ geometry = NotUsed /\ vis = NotUsed
  /\ bz = NotUsed /\ edits = NotUsed /\ rt = NotUsed /\ runs = NotUsed

SetMass ==
  \E v \in MassInputs :
    /\ jet' = MassSetter(jet, v)
    /\ op' = "mass.setter" /\ arg' = v /\ ret' = NotUsed
    /\ UNCHANGED <<rel, geometry, vis, bz, edits, rt, runs>>

SetSpin ==
  \E v \in SpinInputs :
    /\ jet' = SpinSetter(jet, v)
    /\ op' = "spin.setter" /\ arg' = v /\ ret' = NotUsed
    /\ UNCHANGED <<rel, geometry, vis, bz, edits, rt, runs>>

SetB ==
  \E v \in BInputs :
    /\ jet' = BSetter(jet, v)
    /\ op' = "B.setter" /\ arg' = v /\ ret' = NotUsed
    /\ UNCHANGED <<rel, geometry, vis, bz, edits, rt, runs>>

CallGetPhysicalScales ==
  /\ op' = "get_physical_scales" /\ arg' = NotUsed
  /\ ret' = GetPhysicalScales(jet)
  /\ UNCHANGED <<jet, rel, geometry, vis, bz, edits, rt, runs>>

CallFluctuate ==
  \E t10 \in 0..MaxT10, rnd \in RandomDraws :
    /\ op' = "fluctuate" /\ arg' = t10
    /\ ret' = Fluctuate(jet, t10, rnd)
    /\ UNCHANGED <<jet, rel, geometry, vis, bz, edits, rt, runs>>

JetNext == SetMass \/ SetSpin \/ SetB \/ CallGetPhysicalScales \/ CallFluctuate

JetSpec == JetSpecInit /\ [][JetNext]_vars

----------------------------------------------------------------------------
(* Round trip: a default-constructed object is given the target values     *)
(* through its three setters, in any order.                                *)

\* the documented domain: mass > 0, 0 <= spin < 1, B > 0
DomainMass == {m \in MassInputs : FGt(m, Zero)}

DomainSpin == {a \in SpinInputs : FGe(a, Zero) /\ FLt(a, One)}

DomainB == {b \in BInputs : FGt(b, Zero)}

RoundTripInit ==
  /\ jet = DefaultJet
  /\ \E m \in DomainMass, a \in DomainSpin, b \in DomainB :
       rt = [target |-> [mass |-> m, spin |-> a, B |-> b], done |-> <<>>]
  /\ runs = NotUsed
  /\ op = "__init__"
  /\ arg = [mass |-> DefaultMass, spin |-> DefaultSpin, B |-> DefaultB]
  /\ ret = NotUsed
  /\ rel = NotUsed /\ geometry = NotUsed /\ vis = NotUsed
  /\ bz = NotUsed /\ edits = NotUsed

Assigned(name) == \E i \in 1..Len(rt.done) : rt.done[i] = name

AssignMass ==
  /\ ~Assigned("mass")
  /\ jet' = MassSetter(jet, rt.target.mass)
  /\ rt' = [rt EXCEPT !.done = Append(@, "mass")]
  /\ op' = "mass.setter" /\ arg' = rt.target.mass /\ ret' = NotUsed
  /\ UNCHANGED <<rel, geometry, vis, bz, edits, runs>>

AssignSpin ==
  /\ ~Assigned("spin")
  /\ jet' = SpinSetter(jet, rt.target.spin)
  /\ rt' = [rt EXCEPT !.done = Append(@, "spin")]
  /\ op' = "spin.setter" /\ arg' = rt.target.spin /\ ret' = NotUsed
  /\ UNCHANGED <<rel, geometry, vis, bz, edits, runs>>

AssignB ==
  /\ ~Assigned("B")
  /\ jet' = BSetter(jet, rt.target.B)
  /\ rt' = [rt EXCEPT !.done = Append(@, "B")]
  /\ op' = "B.setter" /\ arg' = rt.target.B /\ ret' = NotUsed
  /\ UNCHANGED <<rel, geometry, vis, bz, edits, runs>>

RoundTripNext == AssignMass \/ AssignSpin \/ AssignB

RoundTripSpec == RoundTripInit /\ [][RoundTripNext]_vars

----------------------------------------------------------------------------
(* Specification of a RelativisticEffects object alone: construction with  *)
(* any velocity, then any sequence of updates and queries.                 *)

\* velocities tried: -0.5, 0, 0.05, 0.1, 0.5, 0.8, 0.95 (the default), 0.999, 1, 1.5
VelocityInputs ==
  {F(-5, -1), Zero, F(5, -2), F(1, -1), Half, F(8, -1), F(95, -2),
   F(999, -3), One, F(15, -1)}

\* viewing angles tried, in eighths of a turn: 0, 45, 90, 135 and 180 degrees
AngleInputs == {0, 1, 2, 3, 4}

AngleUnit == 8

\* radii and impact parameters tried: 0, 1, 2, 2.01, 2.5, 3, 8
RadiusInputs == {Zero, One, Two, F(201, -2), F(25, -1), Three, FromInt(8)}

\* Schwarzschild radii tried: -1, 0, 0.5, 2
SchwarzschildInputs == {FNeg(One), Zero, Half, Two}

RelSpecInit ==
  /\ \E v \in VelocityInputs : rel = RelInit(v) /\ arg = v
  /\ op = "__init__"
  /\ ret = NotUsed
  /\ jet = NotUsed /\ geometry = NotUsed /\ vis = NotUsed
  /\ bz = NotUsed /\ edits = NotUsed /\ rt = NotUsed /\ runs = NotUsed

CallUpdateJetVelocity ==
  \E v \in VelocityInputs :
    /\ rel' = UpdateJetVelocity(rel, v)
    /\ op' = "update_jet_velocity" /\ arg' = v /\ ret' = NotUsed
    /\ UNCHANGED <<jet, geometry, vis, bz, edits, rt, runs>>

CallCalculateDopplerFactor ==
  \E n \in AngleInputs, dir \in {1, -1} :
    /\ op' = "calculate_doppler_factor"
    /\ arg' = [viewing_angle |-> n, jet_direction |-> dir]
    /\ ret' = CalculateDopplerFactor(rel, n, AngleUnit, dir)
    /\ UNCHANGED <<jet, rel, geometry, vis, bz, edits, rt, runs>>

CallGravitationalLensingDeflection ==
  \E b \in RadiusInputs, r_s \in SchwarzschildInputs :
    /\ op' = "gravitational_lensing_deflection"
    /\ arg' = [impact_parameter |-> b, schwarzschild_radius |-> r_s]
    /\ ret' = GravitationalLensingDeflection(b, r_s)
    /\ UNCHANGED <<jet, rel, geometry, vis, bz, edits, rt, runs>>

CallCalculateTimeDilation ==
  \E r \in RadiusInputs, r_s \in SchwarzschildInputs :
    /\ op' = "calculate_time_dilation"
    /\ arg' = [radius |-> r, schwarzschild_radius |-> r_s]
    /\ ret' = CalculateTimeDilation(r, r_s)
    /\ UNCHANGED <<jet, rel, geometry, vis, bz, edits, rt, runs>>

RelNext ==
  \/ CallUpdateJetVelocity
  \/ CallCalculateDopplerFactor
  \/ CallGravitationalLensingDeflection
  \/ CallCalculateTimeDilation

RelSpec == RelSpecInit /\ [][RelNext]_vars

----------------------------------------------------------------------------
(* Specification of bzsim.py: the window made by the main block, timer     *)
(* ticks, and the user finishing an edit of one of the three text fields.  *)

\* texts typed into the fields
MassTexts == {<<"1", "0">>, <<"5", "0">>, <<"a", "b", "c">>, <<"2", "0", "0">>}

SpinTexts == {<<"0", ".", "8">>, <<".", "5">>, <<"1", ".", "5">>}

BTexts == {<<"1", "e", "+", "1", "5">>, <<"1", "e", "1", "3">>, <<"n", "a", "n">>}

\* draws of np.random.randn(): -1.5 and 0.5
RandnDraws == {F(-15, -1), Half}

\* timer ticks modelled after a scene initialisation
MaxTicks == 2

\* the main block: BlandfordZnajekJet(10, 0.8, 1e15); the fields show
\* str(10), str(0.8), str(1e15)
BzSpecInit ==
  /\ bz = [jet |-> BzJetInit(Ten, F(8, -1), F(1, 15)), t |-> 0]
  /\ edits = [mass_edit |-> <<"1", "0">>,
              spin_edit |-> <<"0", ".", "8">>,
              B_edit    |-> <<"1", "e", "+", "1", "5">>]
  /\ op = "__init__" /\ arg = NotUsed /\ ret = NotUsed
  /\ jet = NotUsed /\ rel = NotUsed /\ geometry = NotUsed
  /\ vis = NotUsed /\ rt = NotUsed /\ runs = NotUsed

BzTimerTick ==
  /\ bz.t < MaxTicks
  /\ \E randn \in RandnDraws :
       /\ bz' = BzUpdateSimulation(bz, randn)
       /\ arg' = randn
  /\ op' = "update_simulation" /\ ret' = NotUsed
  /\ UNCHANGED <<jet, rel, geometry, vis, edits, rt, runs>>

\* the user finishes editing the mass field: editingFinished calls update_parameters
MassEditingFinished ==
  \E txt \in MassTexts :
    /\ edits' = [edits EXCEPT !.mass_edit = txt]
    /\ bz' = UpdateParameters(bz, edits')
    /\ op' = "update_parameters" /\ arg' = "mass_edit" /\ ret' = NotUsed
    /\ UNCHANGED <<jet, rel, geometry, vis, rt, runs>>

SpinEditingFinished ==
  \E txt \in SpinTexts :
    /\ edits' = [edits EXCEPT !.spin_edit = txt]
    /\ bz' = UpdateParameters(bz, edits')
    /\ op' = "update_parameters" /\ arg' = "spin_edit" /\ ret' = NotUsed
    /\ UNCHANGED <<jet, rel, geometry, vis, rt, runs>>

BEditingFinished ==
  \E txt \in BTexts :
    /\ edits' = [edits EXCEPT !.B_edit = txt]
    /\ bz' = UpdateParameters(bz, edits')
    /\ op' = "update_parameters" /\ arg' = "B_edit" /\ ret' = NotUsed
    /\ UNCHANGED <<jet, rel, geometry, vis, rt, runs>>

BzNext ==
  \/ BzTimerTick
  \/ MassEditingFinished
  \/ SpinEditingFinished
  \/ BEditingFinished

BzSpec == BzSpecInit /\ [][BzNext]_vars

----------------------------------------------------------------------------
(* Specification of visualizer.py: the window made by the main block, the  *)
(* timer, the time controls and the three parameter sliders.               *)

\* positions tried of the mass slider (1 .. 100), the spin slider (0 .. 999)
\* and the B slider (20 .. 60)
MassSliderInputs == {1, 10}

SpinSliderInputs == {0, 900}

BSliderInputs == {40, 55}

SpeedTexts == {"0.5x", "1x", "2x", "3x"}

\* the simulation time stays within -MaxBack .. MaxT time units
MaxT == 8

MaxBack == 4

\* rows of time_data modelled
MaxRecords == 1

InTimeBounds(v) ==
  /\ v.t <= MaxT /\ v.t >= -MaxBack
  /\ Len(v.time_data) <= MaxRecords

VisSpecInit ==
  /\ \E w \in {VisualizerInit(DefaultMass, DefaultSpin, DefaultB)} :
       jet = w.jet /\ rel = w.rel /\ geometry = w.geometry
  /\ vis = TimeControlsInit
  /\ op = NotUsed /\ arg = NotUsed /\ ret = NotUsed
  /\ bz = NotUsed /\ edits = NotUsed /\ rt = NotUsed /\ runs = NotUsed

\* the QTimer fires while it is active
VisTimerTick ==
  /\ vis.timer_active
  /\ InTimeBounds(UpdateSimulation(vis))
  /\ vis' = UpdateSimulation(vis)
  /\ UNCHANGED <<jet, rel, geometry, bz, edits, rt, op, arg, ret, runs>>

CallTogglePlayback ==
  /\ vis' = TogglePlayback(vis)
  /\ UNCHANGED <<jet, rel, geometry, bz, edits, rt, op, arg, ret, runs>>

CallStepForward ==
  /\ InTimeBounds(StepForward(vis))
  /\ vis' = StepForward(vis)
  /\ UNCHANGED <<jet, rel, geometry, bz, edits, rt, op, arg, ret, runs>>

CallStepBackward ==
  /\ InTimeBounds(StepBackward(vis))
  /\ vis' = StepBackward(vis)
  /\ UNCHANGED <<jet, rel, geometry, bz, edits, rt, op, arg, ret, runs>>

CallOnSpeedChanged ==
  \E speed_text \in SpeedTexts :
    /\ vis' = OnSpeedChanged(vis, speed_text)
    /\ UNCHANGED <<jet, rel, geometry, bz, edits, rt, op, arg, ret, runs>>

\* on_mass_changed(value): update_physics_parameters(mass=float(value))
CallOnMassChanged ==
  \E value \in MassSliderInputs :
    /\ \E w \in {UpdatePhysicsParameters([jet |-> jet, rel |-> rel, geometry |-> geometry],
                                         <<FromInt(value)>>, <<>>, <<>>)} :
         jet' = w.jet /\ rel' = w.rel /\ geometry' = w.geometry
    /\ UNCHANGED <<vis, bz, edits, rt, op, arg, ret, runs>>

\* on_spin_changed(value): update_physics_parameters(spin=value / 1000.0)
CallOnSpinChanged ==
  \E value \in SpinSliderInputs :
    /\ \E w \in {UpdatePhysicsParameters([jet |-> jet, rel |-> rel, geometry |-> geometry],
                                         <<>>, <<FDiv(FromInt(value), FromInt(1000))>>, <<>>)} :
         jet' = w.jet /\ rel' = w.rel /\ geometry' = w.geometry
    /\ UNCHANGED <<vis, bz, edits, rt, op, arg, ret, runs>>

\* on_B_changed(value): update_physics_parameters(B=10**(value / 10.0))
CallOnBChanged ==
  \E value \in BSliderInputs :
    /\ \E w \in {UpdatePhysicsParameters([jet |-> jet, rel |-> rel, geometry |-> geometry],
                                         <<>>, <<>>, <<TenToTheTenths(value)>>)} :
         jet' = w.jet /\ rel' = w.rel /\ geometry' = w.geometry
    /\ UNCHANGED <<vis, bz, edits, rt, op, arg, ret, runs>>

VisNext ==
  \/ VisTimerTick
  \/ CallTogglePlayback
  \/ CallStepForward
  \/ CallStepBackward
  \/ CallOnSpeedChanged
  \/ CallOnMassChanged
  \/ CallOnSpinChanged
  \/ CallOnBChanged

VisSpec == VisSpecInit /\ [][VisNext]_vars

----------------------------------------------------------------------------
(* Claims about the physics object                                         *)

----------------------------------------------------------------------------
(* Two runs of the program started from the same seed and the same jet:    *)
(* each makes fluctuate(t) calls; the first run makes nothing else, the    *)
(* second run other operations between its calls.                          *)

\* seeds tried
Seeds == {0, 1}

\* masses assigned between the calls: 1 and 10 solar masses
SeedMassInputs == {One, Ten}

\* fluctuate calls per run
MaxCalls == 2

\* scene generations per run
MaxScenes == 1

SeedSpecInit ==
  /\ \E seed \in Seeds : runs = <<RunInit(seed), RunInit(seed)>>
  /\ op = NotUsed /\ arg = NotUsed /\ ret = NotUsed
  /\ jet = NotUsed /\ rel = NotUsed /\ geometry = NotUsed /\ vis = NotUsed
  /\ bz = NotUsed /\ edits = NotUsed /\ rt = NotUsed

\* either run calls jet.fluctuate(t)
SeedFluctuate ==
  \E i \in {1, 2}, t10 \in 0..MaxT10 :
    /\ Len(runs[i].calls) < MaxCalls
    /\ runs' = [runs EXCEPT ![i] = RunFluctuate(@, t10)]
    /\ UNCHANGED <<jet, rel, geometry, vis, bz, edits, rt, op, arg, ret>>

\* the second run generates the background between its calls
SeedAddBackgroundElements ==
  /\ runs[2].scenes < MaxScenes
  /\ runs' = [runs EXCEPT ![2] = AddBackgroundElements(@)]
  /\ UNCHANGED <<jet, rel, geometry, vis, bz, edits, rt, op, arg, ret>>

\* the second run changes the mass between its calls
SeedSetMass ==
  \E value \in SeedMassInputs :
    /\ runs' = [runs EXCEPT ![2] = RunSetMass(@, value)]
    /\ UNCHANGED <<jet, rel, geometry, vis, bz, edits, rt, op, arg, ret>>

SeedNext == SeedFluctuate \/ SeedAddBackgroundElements \/ SeedSetMass

SeedSpec == SeedSpecInit /\ [][SeedNext]_vars

----------------------------------------------------------------------------
(* Specification of a BlandfordZnajekJet and a RelativisticEffects object  *)
(* side by side: default construction, then any sequence of setter and     *)
(* query calls on either object.                                           *)

\* argument values tried: mass 0.05 and 5, spin 0.5 and 1.5, B 0.5 and 1e6,
\* velocity 0.5 and 1.5
PhysicsMassInputs == {F(5, -2), FromInt(5)}

PhysicsSpinInputs == {Half, F(15, -1)}

PhysicsBInputs == {Half, F(1, 6)}

PhysicsVelocityInputs == {Half, F(15, -1)}

\* whole spectral indices tried (the exponent 3 + index is then 2 or 3)
SpectralIndexInputs == {-1, 0}

\* the default RelativisticEffects velocity
DefaultVelocity == F(95, -2)

PhysicsSpecInit ==
  /\ jet = DefaultJet
  /\ rel = RelInit(DefaultVelocity)
  /\ op = "__init__" /\ arg = NotUsed /\ ret = NotUsed
  /\ geometry = NotUsed /\ vis = NotUsed
  /\ bz = NotUsed /\ edits = NotUsed /\ rt = NotUsed /\ runs = NotUsed

PhysicsSetMass ==
  \E v \in PhysicsMassInputs :
    /\ jet' = MassSetter(jet, v)
    /\ op' = "mass.setter" /\ arg' = v /\ ret' = NotUsed
    /\ UNCHANGED <<rel, geometry, vis, bz, edits, rt, runs>>

PhysicsSetSpin ==
  \E v \in PhysicsSpinInputs :
    /\ jet' = SpinSetter(jet, v)
    /\ op' = "spin.setter" /\ arg' = v /\ ret' = NotUsed
    /\ UNCHANGED <<rel, geometry, vis, bz, edits, rt, runs>>

PhysicsSetB ==
  \E v \in PhysicsBInputs :
    /\ jet' = BSetter(jet, v)
    /\ op' = "B.setter" /\ arg' = v /\ ret' = NotUsed
    /\ UNCHANGED <<rel, geometry, vis, bz, edits, rt, runs>>

PhysicsUpdateJetVelocity ==
  \E v \in PhysicsVelocityInputs :
    /\ rel' = UpdateJetVelocity(rel, v)
    /\ op' = "update_jet_velocity" /\ arg' = v /\ ret' = NotUsed
    /\ UNCHANGED <<jet, geometry, vis, bz, edits, rt, runs>>

PhysicsL_BZ ==
  /\ op' = "L_BZ" /\ arg' = NotUsed
  /\ ret' = L_BZ(jet)
  /\ UNCHANGED <<jet, rel, geometry, vis, bz, edits, rt, runs>>

PhysicsGetPhysicalScales ==
  /\ op' = "get_physical_scales" /\ arg' = NotUsed
  /\ ret' = GetPhysicalScales(jet)
  /\ UNCHANGED <<jet, rel, geometry, vis, bz, edits, rt, runs>>

PhysicsFluctuate ==
  \E rnd \in RandomDraws :
    /\ op' = "fluctuate" /\ arg' = 1
    /\ ret' = Fluctuate(jet, 1, rnd)
    /\ UNCHANGED <<jet, rel, geometry, vis, bz, edits, rt, runs>>

PhysicsDopplerFactor ==
  \E n \in {0, 2}, dir \in {1, -1} :
    /\ op' = "calculate_doppler_factor"
    /\ arg' = [viewing_angle |-> n, jet_direction |-> dir]
    /\ ret' = CalculateDopplerFactor(rel, n, AngleUnit, dir)
    /\ UNCHANGED <<jet, rel, geometry, vis, bz, edits, rt, runs>>

PhysicsBeaming ==
  \E index \in SpectralIndexInputs :
    /\ op' = "apply_relativistic_beaming"
    /\ arg' = [base_intensity |-> Ten, doppler_factor |-> Two,
               spectral_index |-> index]
    /\ ret' = ApplyRelativisticBeaming(Ten, Two, index)
    /\ UNCHANGED <<jet, rel, geometry, vis, bz, edits, rt, runs>>

PhysicsLensing ==
  \E b \in {One, Three} :
    /\ op' = "gravitational_lensing_deflection"
    /\ arg' = [impact_parameter |-> b, schwarzschild_radius |-> Two]
    /\ ret' = GravitationalLensingDeflection(b, Two)
    /\ UNCHANGED <<jet, rel, geometry, vis, bz, edits, rt, runs>>

PhysicsTimeDilation ==
  \E r \in {One, Three} :
    /\ op' = "calculate_time_dilation"
    /\ arg' = [radius |-> r, schwarzschild_radius |-> Two]
    /\ ret' = CalculateTimeDilation(r, Two)
    /\ UNCHANGED <<jet, rel, geometry, vis, bz, edits, rt, runs>>

PhysicsNext ==
  \/ PhysicsSetMass
  \/ PhysicsSetSpin
  \/ PhysicsSetB
  \/ PhysicsUpdateJetVelocity
  \/ PhysicsL_BZ
  \/ PhysicsGetPhysicalScales
  \/ PhysicsFluctuate
  \/ PhysicsDopplerFactor
  \/ PhysicsBeaming
  \/ PhysicsLensing
  \/ PhysicsTimeDilation

PhysicsSpec == PhysicsSpecInit /\ [][PhysicsNext]_vars

----------------------------------------------------------------------------
(* Specification of the time controls of visualizer.py alone: the timer,   *)
(* play/pause, step forward and the speed box, from a fresh window or from *)
(* a window that has played at 1x until the time series holds 999 rows.    *)

\* the entries of the speed box
SpeedBoxTexts == {"0.25x", "0.5x", "1x", "2x", "5x"}

\* half a second, the recording period named in update_simulation, in time units
HalfSecond == 5 * TenthSecond

\* rows recorded by the long run: one every half second from t = 0.5 s
LongRunRows == MaxTimeData - 1

LongRunTimeData == [i \in 1..LongRunRows |-> HalfSecond * i]

\* the time controls after the long run
LongRun ==
  [TimeControlsInit EXCEPT !.t = HalfSecond * LongRunRows,
                           !.time_data = LongRunTimeData]

\* the simulation time advances at most MaxAhead time units from the start
MaxAhead == 44

InTimeWindow(v) ==
  \/ v.t <= MaxAhead
  \/ v.t >= LongRun.t /\ v.t <= LongRun.t + MaxAhead

TimeSpecInit ==
  /\ vis \in {TimeControlsInit, LongRun}
  /\ op = "__init__" /\ arg = NotUsed /\ ret = NotUsed
  /\ jet = NotUsed /\ rel = NotUsed /\ geometry = NotUsed
  /\ bz = NotUsed /\ edits = NotUsed /\ rt = NotUsed /\ runs = NotUsed

\* the QTimer fires while it is active
TimeTimerTick ==
  /\ vis.timer_active
  /\ InTimeWindow(UpdateSimulation(vis))
  /\ vis' = UpdateSimulation(vis)
  /\ op' = "update_simulation"
  /\ UNCHANGED <<jet, rel, geometry, bz, edits, rt, arg, ret, runs>>

TimeTogglePlayback ==
  /\ vis' = TogglePlayback(vis)
  /\ op' = "toggle_playback"
  /\ UNCHANGED <<jet, rel, geometry, bz, edits, rt, arg, ret, runs>>

TimeStepForward ==
  /\ InTimeWindow(StepForward(vis))
  /\ vis' = StepForward(vis)
  /\ op' = "step_forward"
  /\ UNCHANGED <<jet, rel, geometry, bz, edits, rt, arg, ret, runs>>

TimeOnSpeedChanged ==
  \E speed_text \in SpeedBoxTexts :
    /\ vis' = OnSpeedChanged(vis, speed_text)
    /\ op' = "on_speed_changed"
    /\ UNCHANGED <<jet, rel, geometry, bz, edits, rt, arg, ret, runs>>

TimeNext ==
  \/ TimeTimerTick
  \/ TimeTogglePlayback
  \/ TimeStepForward
  \/ TimeOnSpeedChanged

TimeSpec == TimeSpecInit /\ [][TimeNext]_vars

----------------------------------------------------------------------------
(* Specification of the modular window: construction with the default      *)
(* arguments, then any sequence of moves of the mass, spin and B sliders.  *)

\* positions tried of the mass slider (1 .. 100), the spin slider (0 .. 999)
\* and the B slider (20 .. 60)
ModularMassInputs == {1, 10, 100}

ModularSpinInputs == {0, 900, 999}

ModularBInputs == {20, 25, 39, 40, 41, 60}

ModularSpecInit ==
  /\ \E w \in {WithGeometry(DefaultJet)} :
       jet = w.jet /\ geometry = w.geometry
  /\ vis = SlidersInit(DefaultJet)
  /\ op = "__init__" /\ arg = NotUsed /\ ret = NotUsed
  /\ rel = NotUsed
  /\ bz = NotUsed /\ edits = NotUsed /\ rt = NotUsed /\ runs = NotUsed

\* a slider emits valueChanged only when its value changes
MoveMassSlider ==
  \E value \in ModularMassInputs \ {vis.mass_slider} :
    /\ vis' = [vis EXCEPT !.mass_slider = value]
    /\ \E w \in {ModularOnMassChanged(jet, value)} :
         jet' = w.jet /\ geometry' = w.geometry
    /\ op' = "on_mass_changed" /\ arg' = value
    /\ UNCHANGED <<rel, bz, edits, rt, ret, runs>>

MoveSpinSlider ==
  \E value \in ModularSpinInputs \ {vis.spin_slider} :
    /\ vis' = [vis EXCEPT !.spin_slider = value]
    /\ \E w \in {ModularOnSpinChanged(jet, value)} :
         jet' = w.jet /\ geometry' = w.geometry
    /\ op' = "on_spin_changed" /\ arg' = value
    /\ UNCHANGED <<rel, bz, edits, rt, ret, runs>>

MoveBSlider ==
  \E value \in ModularBInputs \ {vis.B_slider} :
    /\ vis' = [vis EXCEPT !.B_slider = value]
    /\ \E w \in {ModularOnBChanged(jet, value)} :
         jet' = w.jet /\ geometry' = w.geometry
    /\ op' = "on_B_changed" /\ arg' = value
    /\ UNCHANGED <<rel, bz, edits, rt, ret, runs>>

ModularNext == MoveMassSlider \/ MoveSpinSlider \/ MoveBSlider

ModularSpec == ModularSpecInit /\ [][ModularNext]_vars

----------------------------------------------------------------------------
(* Specification of the Doppler factors of the program side by side: the   *)
(* jet velocity and the viewing angle change, and each of the three        *)
(* computations is asked for its factor.                                   *)

\* jet velocities tried, within the range 0.8 .. 0.95 of jet.jet_velocity
DopplerVelocityInputs == {F(8, -1), F(85, -2), F(9, -1), F(95, -2)}

\* viewing angles tried, in units of 15 degrees: 0, 15 (the start-up
\* value), 45, 90, 135 and 180 degrees
ViewingInputs == {0, 1, 3, 6, 9, 12}

ViewingUnit == 24

DopplerSpecInit ==
  /\ \E beta \in DopplerVelocityInputs : rel = RelInit(beta)
  /\ vis = [viewing_angle |-> 1]
  /\ op = "__init__" /\ arg = NotUsed /\ ret = NotUsed
  /\ jet = NotUsed /\ geometry = NotUsed
  /\ bz = NotUsed /\ edits = NotUsed /\ rt = NotUsed /\ runs = NotUsed

DopplerSetVelocity ==
  \E beta \in DopplerVelocityInputs :
    /\ rel' = UpdateJetVelocity(rel, beta)
    /\ op' = "update_jet_velocity" /\ arg' = beta /\ ret' = NotUsed
    /\ UNCHANGED <<jet, geometry, vis, bz, edits, rt, runs>>

DopplerSetViewingAngle ==
  \E n \in ViewingInputs :
    /\ vis' = [vis EXCEPT !.viewing_angle = n]
    /\ op' = "on_viewing_changed" /\ arg' = n /\ ret' = NotUsed
    /\ UNCHANGED <<jet, rel, geometry, bz, edits, rt, runs>>

CallRelativisticDoppler ==
  \E dir \in {1, -1} :
    /\ op' = "calculate_doppler_factor" /\ arg' = dir
    /\ ret' = CalculateDopplerFactor(rel, vis.viewing_angle, ViewingUnit, dir)
    /\ UNCHANGED <<jet, rel, geometry, vis, bz, edits, rt, runs>>

CallUpdateDopplerEffects ==
  /\ op' = "update_doppler_effects" /\ arg' = NotUsed
  /\ ret' = UpdateDopplerEffects(rel.jet_velocity, vis.viewing_angle, ViewingUnit)
  /\ UNCHANGED <<jet, rel, geometry, vis, bz, edits, rt, runs>>

CallDisplayedDopplerFactor ==
  /\ op' = "PhysicsCalculations.calculate_doppler_factor" /\ arg' = NotUsed
  /\ ret' = DisplayedDopplerFactor(rel.jet_velocity, vis.viewing_angle, ViewingUnit)
  /\ UNCHANGED <<jet, rel, geometry, vis, bz, edits, rt, runs>>

DopplerNext ==
  \/ DopplerSetVelocity
  \/ DopplerSetViewingAngle
  \/ CallRelativisticDoppler
  \/ CallUpdateDopplerEffects
  \/ CallDisplayedDopplerFactor

DopplerSpec == DopplerSpecInit /\ [][DopplerNext]_vars

----------------------------------------------------------------------------
(* Specification of the Schwarzschild radii the program shows: a jet whose *)
(* mass and spin are set, and the two displays asked for their radius.     *)

\* masses tried, in solar masses: 0.05 (raised to 0.1), 1, 5, 10, 20, 50, 100
RadiusMassInputs ==
  {F(5, -2), One, FromInt(5), Ten, FromInt(20), FromInt(50), FromInt(100)}

\* spins tried: 0, 0.5, 0.9, 0.999
RadiusSpinInputs == {Zero, Half, F(9, -1), MaxSpin}

RadiusSpecInit ==
  /\ jet = DefaultJet
  /\ op = "__init__" /\ arg = NotUsed /\ ret = NotUsed
  /\ rel = NotUsed /\ geometry = NotUsed /\ vis = NotUsed
  /\ bz = NotUsed /\ edits = NotUsed /\ rt = NotUsed /\ runs = NotUsed

RadiusSetMass ==
  \E v \in RadiusMassInputs :
    /\ jet' = MassSetter(jet, v)
    /\ op' = "mass.setter" /\ arg' = v /\ ret' = NotUsed
    /\ UNCHANGED <<rel, geometry, vis, bz, edits, rt, runs>>

RadiusSetSpin ==
  \E v \in RadiusSpinInputs :
    /\ jet' = SpinSetter(jet, v)
    /\ op' = "spin.setter" /\ arg' = v /\ ret' = NotUsed
    /\ UNCHANGED <<rel, geometry, vis, bz, edits, rt, runs>>

CallUpdateStatisticsDisplay ==
  /\ op' = "update_statistics_display" /\ arg' = NotUsed
  /\ ret' = StatisticsSchwarzschildRadius(jet)
  /\ UNCHANGED <<jet, rel, geometry, vis, bz, edits, rt, runs>>

CallCalculateSchwarzschildRadius ==
  /\ op' = "calculate_schwarzschild_radius" /\ arg' = NotUsed
  /\ ret' = CalculateSchwarzschildRadius(jet)
  /\ UNCHANGED <<jet, rel, geometry, vis, bz, edits, rt, runs>>

RadiusNext ==
  \/ RadiusSetMass
  \/ RadiusSetSpin
  \/ CallUpdateStatisticsDisplay
  \/ CallCalculateSchwarzschildRadius

RadiusSpec == RadiusSpecInit /\ [][RadiusNext]_vars

\* C1: in every reachable state of BlandfordZnajekJet, after construction with
\* any numeric arguments and after any setter calls, 0 <= spin < 1.
C1_SpinAlwaysInRange == FLe(Zero, jet.spin) /\ FLt(jet.spin, One)

\* C2: after construction and after every setter call, every derived field
\* equals the derivation applied to the stored (mass, spin, B), and the
\* dictionary returned by get_physical_scales() holds those values.
C2_DerivedNeverStale ==
  LET d == DerivedQuantities(jet.mass, jet.spin, jet.B)
  IN /\ jet.schwarzschild_radius = d.schwarzschild_radius
     /\ jet.black_hole_radius = d.black_hole_radius
     /\ jet.omega_H = d.omega_H
     /\ jet.phi_BH = d.phi_BH
     /\ jet.power = d.power
     /\ jet.jet_velocity = d.jet_velocity
     /\ jet.energy_density = d.energy_density
     /\ jet.isco_radius = d.isco_radius
     /\ op = "get_physical_scales" =>
          /\ ret.black_hole_radius = d.black_hole_radius
          /\ ret.schwarzschild_radius = d.schwarzschild_radius
          /\ ret.isco_radius = d.isco_radius
          /\ ret.jet_velocity = d.jet_velocity
          /\ ret.power = d.power
          /\ ret.energy_density = d.energy_density

\* a mass setter call that changed the mass, and with it the derived radii
C2_Witness ==
  /\ op = "mass.setter"
  /\ arg = Ten
  /\ jet.spin = DefaultSpin
  /\ FGt(jet.schwarzschild_radius, F(295, 4))
  /\ FGt(jet.black_hole_radius, F(2, 6))

\* C3: the constructor applies the out-of-domain policy of the setters: it
\* stores the values that assigning its arguments through the setters stores.
C3_InitClampsLikeSetters ==
  op = "__init__" =>
    /\ jet.mass = MassSetter(jet, arg.mass).mass
    /\ jet.spin = SpinSetter(jet, arg.spin).spin
    /\ jet.B = BSetter(jet, arg.B).B

\* C4: for targets in the documented domain, assigning the three values to a
\* default-constructed object through the setters, in any order, gives the
\* stored inputs and the get_physical_scales() snapshot of direct construction.
C4_RoundTrip ==
  Len(rt.done) = 3 =>
    LET direct == JetInit(rt.target.mass, rt.target.spin, rt.target.B)
    IN /\ jet.mass = direct.mass /\ jet.spin = direct.spin /\ jet.B = direct.B
       /\ GetPhysicalScales(jet) = GetPhysicalScales(direct)

PointOne == F(1, -1)

Point999 == F(999, -3)

----------------------------------------------------------------------------
(* Claims about RelativisticEffects                                        *)

\* C10: in every reachable state of RelativisticEffects, after construction
\* with any jet_velocity and after any update_jet_velocity calls, the stored
\* jet_velocity lies in [0.1, 0.999] and gamma is the finite value
\* 1/sqrt(1 - jet_velocity^2) of the stored velocity.
C10_VelocityAlwaysClamped ==
  /\ FGe(rel.jet_velocity, PointOne)
  /\ FLe(rel.jet_velocity, Point999)
  /\ IsFinite(rel.gamma)
  /\ rel.gamma = FDiv(One, FSqrt(FSub(One, FMul(rel.jet_velocity, rel.jet_velocity))))

----------------------------------------------------------------------------
(* Claims about bzsim.py                                                   *)

\* C6: after any number of timer ticks with no parameter change in between,
\* the stored power and energy_density of the jet still equal the values
\* derived from the current (mass, spin, B): fluctuation does not accumulate.
C6_FluctuationNeverAccumulates ==
  LET d == BzJetInit(bz.jet.mass, bz.jet.spin, bz.jet.B)
  IN bz.jet.power = d.power /\ bz.jet.energy_density = d.energy_density

\* the three fields hold texts that parse to numbers in the accepted ranges
ValidEdits(e) ==
  LET mass == ParseFloat(e.mass_edit)
      spin == ParseFloat(e.spin_edit)
      B    == ParseFloat(e.B_edit)
  IN /\ mass.ok /\ spin.ok /\ B.ok
     /\ FLe(One, mass.value) /\ FLe(mass.value, FromInt(100))
     /\ FLe(F(1, -2), spin.value) /\ FLe(spin.value, F(99, -2))
     /\ FLe(F(1, 12), B.value) /\ FLe(B.value, F(1, 16))

\* C8: when update_parameters runs and one of the three fields does not
\* parse or is out of its range, mass, spin, B, power and energy_density of
\* the jet are left as they were; nothing is partially applied.
C8_InvalidInputIgnored ==
  [][(op' = "update_parameters" /\ ~ValidEdits(edits')) => bz'.jet = bz.jet]_vars

\* update_parameters ran with a valid new mass text next to an invalid spin
\* text, and the mass of the jet is still the old one
C8_Witness ==
  /\ op = "update_parameters"
  /\ edits.mass_edit = <<"5", "0">>
  /\ edits.spin_edit = <<"1", ".", "5">>
  /\ bz.jet.mass = Ten

----------------------------------------------------------------------------
(* Claims about visualizer.py                                              *)

\* C7: over any sequence of timer ticks, play/pause toggles, speed changes,
\* step_forward, step_backward and parameter updates, the simulation time t
\* of the visualizer never decreases.
C7_TimeNeverDecreases == [][vis'.t >= vis.t]_vars

\* C9: after construction and after every parameter-change handler, hence at
\* every timer tick, relativistic.jet_velocity equals jet.jet_velocity, gamma
\* is 1/sqrt(1 - jet_velocity^2) for it, and the physics parameters stored in
\* the geometry generator equal jet.get_physical_scales(), radii in km.
C9_ObserversNeverStale ==
  LET scales == GetPhysicalScales(jet)
  IN /\ rel.jet_velocity = jet.jet_velocity
     /\ rel.gamma = FDiv(One, FSqrt(FSub(One, FMul(jet.jet_velocity, jet.jet_velocity))))
     /\ geometry.bh_radius = FDiv(scales.black_hole_radius, F(1, 5))
     /\ geometry.schwarzschild_radius = FDiv(scales.schwarzschild_radius, F(1, 5))
     /\ geometry.isco_radius = FDiv(scales.isco_radius, F(1, 5))
     /\ geometry.jet_velocity = scales.jet_velocity
     /\ geometry.power = scales.power
     /\ geometry.energy_density = scales.energy_density

\* the mass slider moved to 1 while the clock was running: the geometry
\* holds the horizon radius of one solar mass, in km
C9_Witness ==
  /\ vis.t > 0
  /\ jet.mass = One
  /\ FLt(geometry.bh_radius, Three)
  /\ geometry.bh_radius = FDiv(jet.black_hole_radius, F(1, 5))

----------------------------------------------------------------------------
(* Claims about the Doppler factor, lensing and time dilation              *)

\* the unclamped Doppler factor 1 / (gamma (1 - dir beta cos(theta))) for a
\* viewing angle theta of n/d turn
DopplerFormula(beta, n, d, dir) ==
  FDiv(One,
       FMul(Gamma(beta),
            FSub(One, FMul(FMul(FromInt(dir), beta), CosTurn(n, d)))))

\* C11: for every viewing angle in [0, pi], either jet direction and every
\* jet velocity in [0.1, 0.999], calculate_doppler_factor returns a value in
\* [0.01, 50.0]: the value of 1 / (gamma (1 - dir beta cos(theta))) where
\* that lies in the range, and the nearer bound where it does not.
C11_DopplerWithinRange ==
  (/\ op = "calculate_doppler_factor"
   /\ FGe(rel.jet_velocity, MinVelocity)
   /\ FLe(rel.jet_velocity, MaxVelocity))
  => LET d == DopplerFormula(rel.jet_velocity, arg.viewing_angle, AngleUnit,
                             arg.jet_direction)
     IN /\ FGe(ret, MinDoppler)
        /\ FLe(ret, MaxDoppler)
        /\ IsFinite(ret)
        /\ ret = IF FLt(d, MinDoppler) THEN MinDoppler
                 ELSE IF FGt(d, MaxDoppler) THEN MaxDoppler
                 ELSE d

\* the receding jet seen head-on at beta = 0.999: the factor is the formula's
\* value, about 0.022, de-boosted but above the lower bound
C11_Witness ==
  /\ op = "calculate_doppler_factor"
  /\ rel.jet_velocity = MaxVelocity
  /\ arg.viewing_angle = 0
  /\ arg.jet_direction = -1
  /\ FLt(ret, F(3, -2))
  /\ FGt(ret, MinDoppler)

----------------------------------------------------------------------------
(* Claims about the fluctuation                                            *)

\* C12: fluctuate(t) returns a multiplier within a fixed bounded range, here
\* [0.5, 1.5], for every time t and every random draw, whatever the current
\* mass, spin and B are.
C12_FluctuateReturnsBoundedMultiplier ==
  op = "fluctuate" => FGe(ret, F(5, -1)) /\ FLe(ret, F(15, -1))

\* C13: two runs that start from the same seed and the same jet and make the
\* same sequence of fluctuate(t) calls obtain the same sequence of results,
\* whatever other operations are interleaved between the calls.
C13_FluctuationReproducible ==
  \A k \in 1..MaxCalls :
    (/\ k <= Len(runs[1].calls) /\ k <= Len(runs[2].calls)
     /\ SubSeq(runs[1].calls, 1, k) = SubSeq(runs[2].calls, 1, k))
    => runs[1].results[k] = runs[2].results[k]

----------------------------------------------------------------------------
(* Claims about the derived quantities                                     *)

ComparableInputs(j) ==
  /\ FGt(j.mass, Zero)
  /\ FGe(j.spin, Zero) /\ FLe(j.spin, MaxSpin)
  /\ FGt(j.B, Zero)

\* C15: the jet power is non-decreasing in spin and in B: a spin setter call
\* that does not lower the spin (mass and B stay as they are) does not lower
\* the power, and neither does a B setter call that does not lower B.
C15_PowerMonotone ==
  [][(/\ ComparableInputs(jet) /\ ComparableInputs(jet')
      /\ \/ op' = "spin.setter" /\ FLe(jet.spin, jet'.spin)
         \/ op' = "B.setter" /\ FLe(jet.B, jet'.B))
     => FLe(jet.power, jet'.power)]_vars

\* C16: in every reachable state of BlandfordZnajekJet the jet velocity is
\* below 1, at least the floor 0.8 and at most 0.99, and it is non-decreasing
\* in power: a step that does not lower the power does not lower the
\* velocity.
C16_VelocityBelowOne ==
  [][/\ FGe(jet.jet_velocity, VelocityFloor)
     /\ FLe(jet.jet_velocity, F(99, -2))
     /\ FGe(jet'.jet_velocity, VelocityFloor)
     /\ FLe(jet'.jet_velocity, F(99, -2))
     /\ FLe(jet.power, jet'.power) => FLe(jet.jet_velocity, jet'.jet_velocity)]_vars

\* C17: in every reachable state of BlandfordZnajekJet the quantity
\* 1 - spin^2 under the square root is not negative, the horizon radius is a
\* real number, and GM/c^2 <= black_hole_radius <= schwarzschild_radius =
\* 2GM/c^2.
C17_HorizonRadiusReal ==
  LET M_cgs == FMul(jet.mass, MSUN)
  IN /\ FGe(FSub(One, FSquare(jet.spin)), Zero)
     /\ IsFinite(jet.black_hole_radius)
     /\ FLe(FDiv(FMul(G, M_cgs), FSquare(C)), jet.black_hole_radius)
     /\ FLe(jet.black_hole_radius, jet.schwarzschild_radius)
     /\ jet.schwarzschild_radius = FMul(Two, FDiv(FMul(G, M_cgs), FSquare(C)))

----------------------------------------------------------------------------
(* Claims about lensing and time dilation                                  *)

\* C19: gravitational_lensing_deflection(b, r_s) returns 0 when b <= r_s and
\* the smaller of 2 r_s / b and pi/2 when b > r_s (for every b and r_s for
\* which the quotient exists), so for r_s > 0 the result lies in [0, pi/2].
C19_LensingDeflection ==
  op = "gravitational_lensing_deflection"
  => LET b         == arg.impact_parameter
         r_s       == arg.schwarzschild_radius
         weakField == FDiv(FAdd(r_s, r_s), b)
     IN /\ FLe(b, r_s) => ret = Zero
        /\ (FGt(b, r_s) /\ b # Zero) =>
             ret = IF FLt(weakField, HalfPi) THEN weakField ELSE HalfPi
        /\ FGt(r_s, Zero) =>
             /\ IsFinite(ret)
             /\ FGe(ret, Zero) /\ FLe(ret, HalfPi)

\* a ray passing at 1.25 r_s: 2 r_s / b = 1.6 is cut to pi/2
C19_Witness ==
  /\ op = "gravitational_lensing_deflection"
  /\ arg.impact_parameter = F(25, -1) /\ arg.schwarzschild_radius = Two
  /\ ret = HalfPi

----------------------------------------------------------------------------
(* Claims about the Doppler factor over the viewing angle                  *)

\* a calculate_doppler_factor call was made on a velocity in [0.1, 0.999]
DopplerCallInRange ==
  /\ op = "calculate_doppler_factor"
  /\ FGe(rel.jet_velocity, MinVelocity)
  /\ FLe(rel.jet_velocity, MaxVelocity)

----------------------------------------------------------------------------
(* Frame of the physics operations                                         *)

\* the operations that only query
QueryOperations ==
  {"L_BZ", "get_physical_scales", "fluctuate", "calculate_doppler_factor",
   "apply_relativistic_beaming", "gravitational_lensing_deflection",
   "calculate_time_dilation"}

\* C22: each setter changes only its own input among (mass, spin, B) and
\* nothing of the RelativisticEffects object, and the query operations leave
\* every stored field of both objects unchanged.
C22_PhysicsFrame ==
  [][/\ op' = "mass.setter" =>
          jet'.spin = jet.spin /\ jet'.B = jet.B /\ rel' = rel
     /\ op' = "spin.setter" =>
          jet'.mass = jet.mass /\ jet'.B = jet.B /\ rel' = rel
     /\ op' = "B.setter" =>
          jet'.mass = jet.mass /\ jet'.spin = jet.spin /\ rel' = rel
     /\ op' \in QueryOperations => jet' = jet /\ rel' = rel]_vars

\* the mass setter called on an object whose spin, B and velocity were all
\* changed from their defaults before
C22_Witness ==
  /\ op = "mass.setter"
  /\ jet.mass = MinMass /\ jet.spin = MaxSpin /\ jet.B = F(1, 6)
  /\ rel.jet_velocity = Half

----------------------------------------------------------------------------
(* The ISCO of the default black hole                                      *)

\* the stored inputs are mass = 10, spin = 0.9, B = 1e4
ScenarioInputs ==
  jet.mass = Ten /\ jet.spin = F(9, -1) /\ jet.B = F(1, 4)

----------------------------------------------------------------------------
(* Claims about the time controls of visualizer.py                         *)

\* C24: time_data never holds more than 1000 rows; a row appended to fewer
\* than 1000 rows is added at the end, and a row appended to 1000 rows
\* leaves exactly the 500 most recent rows, the new one last, in their order.
C24_TimeDataBounded ==
  [][/\ Len(vis'.time_data) <= MaxTimeData
     /\ (vis'.time_data # vis.time_data /\ Len(vis.time_data) < MaxTimeData)
          => vis'.time_data = Append(vis.time_data, vis'.t)
     /\ (vis'.time_data # vis.time_data /\ Len(vis.time_data) = MaxTimeData)
          => /\ Len(vis'.time_data) = KeepTimeData
             /\ vis'.time_data[KeepTimeData] = vis'.t
             /\ \A i \in 1..(KeepTimeData - 1) :
                  vis'.time_data[i] =
                    vis.time_data[i + MaxTimeData + 1 - KeepTimeData]]_vars

\* after the long run and two more rows the buffer was cut: it holds 500
\* rows, the oldest being row 502 of the long run
C24_Witness ==
  /\ Len(vis.time_data) = KeepTimeData
  /\ vis.time_data[1] = LongRunTimeData[MaxTimeData + 2 - KeepTimeData]
  /\ vis.time_data[KeepTimeData] = vis.t
  /\ vis.t > LongRun.t

\* C25: while playing, at every speed of the speed box, a timer tick appends
\* to time_data exactly one row for each multiple of 0.5 s that the
\* simulation time reaches in that tick, and none otherwise.
C25_OneRowPerHalfSecond ==
  [][(/\ op' = "update_simulation"
      /\ vis.is_playing
      /\ Len(vis.time_data) < MaxTimeData)
     => Len(vis'.time_data) =
          Len(vis.time_data)
            + ((vis'.t \div HalfSecond) - (vis.t \div HalfSecond))]_vars

\* C26: initially and after every step the animation timer is running if and
\* only if is_playing is true; each toggle_playback flips is_playing; and a
\* call of update_simulation made while is_playing is false (through
\* step_forward, the timer being stopped) changes neither t nor time_data.
C26_PlayPauseConsistent ==
  [][/\ vis.timer_active = vis.is_playing
     /\ vis'.timer_active = vis'.is_playing
     /\ op' = "toggle_playback" => vis'.is_playing = ~vis.is_playing
     /\ (op' \in {"update_simulation", "step_forward"} /\ ~vis.is_playing)
          => vis'.t = vis.t /\ vis'.time_data = vis.time_data]_vars

\* step_forward was called on a paused window whose time had advanced
C26_Witness ==
  /\ op = "step_forward"
  /\ ~vis.is_playing /\ ~vis.timer_active
  /\ vis.t > 0 /\ Len(vis.time_data) > 0

\* C27: every call of step_forward increases the simulation time t by
\* 0.1 * time_speed, while playing and while paused.
C27_StepForwardAdvances ==
  [][op' = "step_forward" => vis'.t = vis.t + vis.time_speed]_vars

----------------------------------------------------------------------------
(* Claims about the modular window                                         *)

\* C28: the B slider of the modular window covers 1e2 to 1e6 Gauss on a log
\* scale: after a move of the slider to position v in [20, 60] jet.B is
\* 10^(v/10), jet.B always lies in [1e2, 1e6], and the position written
\* into the slider at start-up maps back to the jet's B.
C28_BSliderLogScale ==
  /\ op = "__init__" => TenToTheTenths(vis.B_slider) = jet.B
  /\ op = "on_B_changed" => jet.B = TenToTheTenths(arg)
  /\ FGe(jet.B, F(1, 2)) /\ FLe(jet.B, F(1, 6))

\* x and y > 0 differ by at most a thousandth of y
Close(x, y) ==
  /\ FLe(FSub(x, y), FMul(F(1, -3), y))
  /\ FLe(FSub(y, x), FMul(F(1, -3), y))

\* the factor of RelativisticEffects.calculate_doppler_factor for the current
\* velocity and viewing angle lies strictly inside the clamp range
Unclamped(dir) ==
  /\ FGt(CalculateDopplerFactor(rel, vis.viewing_angle, ViewingUnit, dir), MinDoppler)
  /\ FLt(CalculateDopplerFactor(rel, vis.viewing_angle, ViewingUnit, dir), MaxDoppler)

\* C29: for the same jet velocity and viewing angle, with the result inside
\* [0.01, 50], the approaching and receding factors of
\* RenderingEngine.update_doppler_effects and the factor of
\* PhysicsCalculations.calculate_doppler_factor equal those of
\* RelativisticEffects.calculate_doppler_factor for directions +1 and -1.
C29_DopplerFactorsAgree ==
  /\ (op = "update_doppler_effects" /\ Unclamped(1) /\ Unclamped(-1)) =>
       /\ Close(ret.approaching,
                CalculateDopplerFactor(rel, vis.viewing_angle, ViewingUnit, 1))
       /\ Close(ret.receding,
                CalculateDopplerFactor(rel, vis.viewing_angle, ViewingUnit, -1))
  /\ (op = "PhysicsCalculations.calculate_doppler_factor" /\ Unclamped(1)) =>
       Close(ret, CalculateDopplerFactor(rel, vis.viewing_angle, ViewingUnit, 1))

\* the part of C29 that is about the displayed factor alone
DisplayedFactorAgrees ==
  (op = "PhysicsCalculations.calculate_doppler_factor" /\ Unclamped(1)) =>
    ret = CalculateDopplerFactor(rel, vis.viewing_angle, ViewingUnit, 1)

\* the lengths x and y > 0 differ by at most one per cent of y
SameLength(x, y) ==
  /\ FLe(FSub(x, y), FMul(F(1, -2), y))
  /\ FLe(FSub(y, x), FMul(F(1, -2), y))

\* C30: for every mass the Schwarzschild radius shown by the statistics
\* panel (in cm) and the one of
\* PhysicsCalculations.calculate_schwarzschild_radius (in km) are the same
\* length as jet.schwarzschild_radius = 2 G M / c^2, which is about 2.95e5 cm
\* per solar mass.
C30_OneSchwarzschildRadius ==
  /\ SameLength(jet.schwarzschild_radius, FMul(F(295, 3), jet.mass))
  /\ op = "update_statistics_display" =>
       SameLength(ret, jet.schwarzschild_radius)
  /\ op = "calculate_schwarzschild_radius" =>
       SameLength(FMul(ret, CmPerKm), jet.schwarzschild_radius)

\* the part of C30 about PhysicsCalculations.calculate_schwarzschild_radius
CalculatedRadiusAgrees ==
  /\ SameLength(jet.schwarzschild_radius, FMul(F(295, 3), jet.mass))
  /\ op = "calculate_schwarzschild_radius" =>
       SameLength(FMul(ret, CmPerKm), jet.schwarzschild_radius)

====
